---------------------------- MODULE Spec2Model ----------------------------
(***************************************************************************)
(* MARI report generator: the export service (services/gamma.ts) and the   *)
(* ReportGenerator component that drives it.                               *)
(*                                                                         *)
(* Every specification below runs over the same variables and the same     *)
(* actions; the specifications differ in the scenario they start from and  *)
(* in the inputs the environment (user, timer, export backend) may supply. *)
(*   Spec          the generator under every sequence of user actions      *)
(*   SpecPoll      one export job, its poll loop, any backend answers      *)
(*   SpecScript    one export job against a scripted status sequence       *)
(*   SpecCatalog   one catalog fetch against a cursor-addressed backend    *)
(*   SpecClassify  the error classification of the three call sites        *)
(*                                                                         *)
(* JavaScript values: a string that is shown or compared as a whole is a   *)
(* TLA+ string, NULL stands for null/undefined; a string that the code     *)
(* inspects (a response body) is a sequence of characters.                 *)
(***************************************************************************)
EXTENDS Integers, Sequences, FiniteSets, TLC

\* ------------------------------------------------------------------ bounds

\* export jobs (generatePresentation calls) whose loop may exist at once
MaxJobs == 2
\* catalog fetches (listGammaThemes calls) that may be in flight at once
MaxFetches == 2
\* draft generations (handleSubmitDraft runs) that may be in flight at once
MaxRuns == 1
\* timer ticks per poll loop explored by the generator-level specification
MaxUiTicks == 1
\* entries of one catalog page
MaxPageLen == 2
MaxFiles == 2
MaxSheets == 2
\* ticks of a poll loop in the specification of the submissions
MaxPolls == 1
\* messages in the chat before the input is left alone
MaxMessages == 3
\* chunks of a streamed answer
MaxChunks == 2

\* --------------------------------------------------------- program constants

\* const maxAttempts = 30
maxAttempts == 30
NULL == "null"

\* JavaScript truthiness of a nullable string
Truthy(s) == s # NULL /\ s # ""

\* ------------------------------------------------------------ strings

\* 'corsdemo'
Marker == <<"c", "o", "r", "s", "d", "e", "m", "o">>

\* String.prototype.toLowerCase on the characters that occur in the bodies
\* and in the file names
LowerChar(c) ==
    CASE c = "C" -> "c"
      [] c = "O" -> "o"
      [] c = "R" -> "r"
      [] c = "S" -> "s"
      [] c = "D" -> "d"
      [] c = "E" -> "e"
      [] c = "M" -> "m"
      [] c = "F" -> "f"
      [] c = "X" -> "x"
      [] c = "L" -> "l"
      [] c = "V" -> "v"
      [] OTHER -> c

toLowerCase(s) == [i \in DOMAIN s |-> LowerChar(s[i])]

\* String.prototype.includes
includes(s, m) ==
    \E i \in 0..(Len(s) - Len(m)) : SubSeq(s, i + 1, i + Len(m)) = m

\* String.prototype.endsWith
endsWith(s, suffix) ==
    Len(s) >= Len(suffix) /\ SubSeq(s, Len(s) - Len(suffix) + 1, Len(s)) = suffix

\* String.prototype.trim, with " " for white space
RECURSIVE trimStart(_)
trimStart(s) == IF s # <<>> /\ Head(s) = " " THEN trimStart(Tail(s)) ELSE s
RECURSIVE trimEnd(_)
trimEnd(s) ==
    IF s # <<>> /\ s[Len(s)] = " " THEN trimEnd(SubSeq(s, 1, Len(s) - 1)) ELSE s
trim(s) == trimEnd(trimStart(s))

\* String.prototype.replace(/"/g, '')
removeQuotes(s) == SelectSeq(s, LAMBDA c : c # "\"")

\* Response.ok
ResponseOk(status) == status >= 200 /\ status <= 299

\* ------------------------------------------------------------ errors

\* An Error as the generator shows it: the fixed text of the message, the
\* HTTP status interpolated into it (NoStatus when the template has none)
\* and the interpolated detail (a response body or the backend's error).
NoStatus == 0
\* response.status is read only from a response: fetch() that rejects has none
NoResponse == NoStatus
Err(text, status, detail) == [text |-> text, status |-> status, detail |-> detail]
NoError == Err("", NoStatus, <<>>)

ProxyRequired ==
    Err("CORS_PROXY_REQUIRED:Acesso ao proxy necessario. Por favor, ative-o e tente novamente.",
        NoStatus, <<>>)

\* The classification as written out at each of the three call sites: what
\* the site throws (or rejects with) for a response, NoError when the
\* response is ok and the site goes on to read its JSON.

\* listGammaThemes: if (!response.ok) { ... }
CatalogResponseError(status, errorText) ==
    IF ResponseOk(status) THEN NoError
    ELSE IF status = 403 /\ includes(toLowerCase(errorText), Marker)
         THEN ProxyRequired
         ELSE Err("Erro ao listar temas da Gamma: ", status, errorText)

\* generatePresentation: if (!initialResponse.ok) { ... }
SubmitResponseError(status, errorText) ==
    IF ResponseOk(status) THEN NoError
    ELSE IF status = 403 /\ includes(toLowerCase(errorText), Marker)
         THEN ProxyRequired
         ELSE Err("Erro da API da Gamma ao iniciar a geracao: ", NoStatus, errorText)

\* pollForPptxGeneration: if (!response.ok) { ... }
PollResponseError(status, errorText) ==
    IF ResponseOk(status) THEN NoError
    ELSE IF status = 403 /\ includes(toLowerCase(errorText), Marker)
         THEN ProxyRequired
         ELSE Err("Erro ao verificar o status do PPTX: ", NoStatus, errorText)

\* 'Erro desconhecido'
ErroDesconhecido == <<"?">>

ExportFailedError(error) ==
    Err("A API da Gamma falhou ao gerar o PPTX: ", NoStatus,
        IF error # <<>> THEN error ELSE ErroDesconhecido)

ExportTimedOutError ==
    Err("A geracao do PPTX demorou muito. Tente novamente mais tarde.", NoStatus, <<>>)

\* what fetch() rejects with when the transport fails
NetworkError == Err("Failed to fetch", NoStatus, <<>>)

\* ------------------------------------------------------------ state

VARIABLES
    \* ReportGenerator, React state
    draftResult,        \* string | null
    editedDraft,        \* string
    isEditing,          \* boolean
    loading,            \* 'draft' | null
    error,              \* string | null
    loadingSuggestions, \* boolean
    gammaThemes,        \* { id, name }[]
    selectedGammaTheme, \* string
    loadingThemes,      \* boolean
    pptxUrl,            \* string | null
    pptxError,          \* the message shown, NoError for null
    isPptLoading,       \* boolean
    sources,            \* GroundingChunk[]
    imagePrompt,        \* string
    imageStylePrompt,   \* string
    knowledgeBaseFiles, \* File[]
    \* calls in flight
    runs,               \* handleSubmitDraft runs
    fetches,            \* fetchThemes -> listGammaThemes calls
    jobs,               \* handleGeneratePptx -> generatePresentation calls
    \* environment
    backend,            \* the catalog backend: request cursor -> page
    pollScript,         \* the scripted status answers of SpecScript
    suggestionScript,   \* the scripted answers to the two suggestion calls
    chatApiKey,         \* process.env.API_KEY is set: new GoogleGenAI succeeds
    \* App, React state
    reportContext,      \* string | null
    \* ChatWidget, React state and ref
    isOpen,             \* boolean
    messages,           \* ChatMessage[]
    chatLoading,        \* loading: boolean
    chatRef,            \* chatRef.current: Chat | null
    stream,             \* the handleSendMessage call in flight
    \* classification harness of SpecClassify
    clsInput,           \* the response handed to the classifier
    clsResult,          \* site -> what that site made of the response
    \* harness of the specifications of one pure function
    fnInput,            \* the argument handed to the function
    fnOutput            \* what the function returned

uiVars == <<draftResult, editedDraft, isEditing, loading, error, loadingSuggestions,
            gammaThemes, selectedGammaTheme, loadingThemes, pptxUrl, pptxError,
            isPptLoading>>
procVars == <<runs, fetches, jobs>>
envVars == <<backend, pollScript, suggestionScript, chatApiKey>>
clsVars == <<clsInput, clsResult>>
draftVars == <<sources, imagePrompt, imageStylePrompt, knowledgeBaseFiles>>
fnVars == <<fnInput, fnOutput>>
chatVars == <<reportContext, isOpen, messages, chatLoading, chatRef, stream>>
vars == <<uiVars, procVars, envVars, clsVars, draftVars, fnVars, chatVars>>

\* ------------------------------------------------------------ catalog data

\* theme objects as the export backend lists them
RawThemes ==
    { [id |-> "t1", name |-> "Aurora", type |-> "standard"],
      [id |-> "t2", name |-> "Basalt", type |-> "custom"] }

\* page.data.map((theme) => ({ id: theme.id, name: theme.name }))
themesFromPage(data) == [i \in DOMAIN data |-> [id |-> data[i].id, name |-> data[i].name]]

\* allThemes = [...allThemes, ...themesFromPage]
\* an accumulation that puts the page last received first
AppendPageFirst(allThemes, data) == themesFromPage(data) \o allThemes

AppendPage(allThemes, data) == allThemes \o themesFromPage(data)

SeqsUpTo(S, n) == UNION { [1..k -> S] : k \in 0..n }

\* the cursors a page may name as nextCursor, and the `after` of a request
\* (NULL: the request carries no `after`)
Cursors == {NULL, "c1"}

Pages(maxLen) ==
    [data : SeqsUpTo(RawThemes, maxLen), hasMore : BOOLEAN, nextCursor : Cursors]

\* ------------------------------------------------------------ calls in flight

\* one of the two suggestion calls of a handleSubmitDraft run
NotCalled == [state |-> "idle", value |-> <<>>]
Called == [state |-> "pending", value |-> <<>>]
Returned(value) == [state |-> "returned", value |-> value]

\* A handleSubmitDraft run: the knowledgeBaseFiles of its closure, what each
\* file read has produced so far, the parts handed to generateReportDraft
\* (<<>> until the call is issued) and its two suggestion calls.
\*   phase: "free", "files" (reads under way), "draft" (generateReportDraft
\*   under way), "suggest" (suggestion calls under way), "failed" (a file
\*   read threw; the locals are garbage)
FreeRun ==
    [phase |-> "free", files |-> <<>>, reads |-> <<>>, contents |-> <<>>,
     promptCall |-> NotCalled, styleCall |-> NotCalled]
\* A listGammaThemes call: allThemes as accumulated so far, the `after` of
\* the page request last sent (NULL: none), and the reply to that request
\* once the backend has answered it.
\*   pc: "free" (no call), "sent" (request on its way), "replied" (answer on
\*   its way back), "failed" (the call threw; its locals are garbage)
NoPage == [data |-> <<>>, hasMore |-> FALSE, nextCursor |-> NULL]
CatalogReply(http, body, page) == [http |-> http, body |-> body, page |-> page]
NoReply == CatalogReply(NoResponse, <<>>, NoPage)
FreeFetch == [pc |-> "free", allThemes |-> <<>>, after |-> NULL, reply |-> NoReply]

Pending == [state |-> "pending", url |-> NULL, error |-> NoError]
Resolved(url) == [state |-> "resolved", url |-> url, error |-> NoError]
Rejected(e) == [state |-> "rejected", url |-> NULL, error |-> e]

\* the optional imageStyle argument of generatePresentation
NoImageStyle == [defined |-> FALSE, text |-> <<>>]
ImageStyle(text) == [defined |-> TRUE, text |-> text]

\* a body that carries the image options whenever the argument was passed
generationBodyStyleIfPassed(markdownContent, themeId, imageStyle) ==
    LET body == [inputText |-> markdownContent, textMode |-> "preserve",
                 format |-> "presentation", themeId |-> themeId, exportAs |-> "pptx",
                 cardOptions |-> [dimensions |-> "16x9"]]
    IN IF imageStyle.defined
       THEN body @@ [imageOptions |-> [source |-> "aiGenerated", style |-> imageStyle.text]]
       ELSE body

\* generatePresentation: generationBody, with if (imageStyle) imageOptions
generationBody(markdownContent, themeId, imageStyle) ==
    LET body == [inputText |-> markdownContent, textMode |-> "preserve",
                 format |-> "presentation", themeId |-> themeId, exportAs |-> "pptx",
                 cardOptions |-> [dimensions |-> "16x9"]]
    IN IF imageStyle.defined /\ imageStyle.text # <<>>
       THEN body @@ [imageOptions |-> [source |-> "aiGenerated", style |-> imageStyle.text]]
       ELSE body

NoBody == [inputText |-> NULL]

\* a poll loop that polls one and the same generation whatever it was given
StatusRequestOfFixedGeneration(generationId) == [method |-> "GET", generation |-> "g1"]
\* GET /generations/${generationId}: the status request of a poll loop
StatusRequest(generationId) == [method |-> "GET", generation |-> generationId]
NoRequest == [method |-> "none", generation |-> NULL]

\* A generatePresentation call: its markdownContent argument (until the
\* call has returned or thrown), the body of its POST (until the response
\* is there: it is not read again) and the status request its loop sent
\* last are kept next to the generationId its submission returned.
FreeJob ==
    [phase |-> "free", generationId |-> NULL, attempts |-> 0, requests |-> 0,
     inflight |-> 0, promise |-> Pending, request |-> NoRequest, body |-> NoBody,
     markdownContent |-> NULL]

\* resolve / reject of new Promise((resolve, reject) => ...): only the first
\* call settles the promise
\* a promise that takes whatever resolve/reject was called last
SettleOverwrite(promise, outcome) == outcome

Settle(promise, outcome) == IF promise.state = "pending" THEN outcome ELSE promise

\* a job's slot can be taken by a new call once its submission threw, or its
\* loop has stopped and no status request of it is outstanding
Reusable(job) ==
    \/ job.phase \in {"free", "aborted"}
    \/ job.phase = "stopped" /\ job.inflight = 0

HasFreeRun(rs) == \E i \in DOMAIN rs : rs[i].phase \in {"free", "failed"}
FreeRunSlot(rs) == CHOOSE i \in DOMAIN rs : rs[i].phase \in {"free", "failed"}

HasFreeFetch(fs) == \E i \in DOMAIN fs : fs[i].pc \in {"free", "failed"}
FreeFetchSlot(fs) == CHOOSE i \in DOMAIN fs : fs[i].pc \in {"free", "failed"}

HasFreeJob(js) == \E i \in DOMAIN js : Reusable(js[i])
FreeJobSlot(js) == CHOOSE i \in DOMAIN js : Reusable(js[i])

\* the interval timer of a job's poll loop is set
TimerActive(job) == job.phase = "poll"

\* status responses the loop of a job has processed
StatusResponses(job) == job.requests - job.inflight

\* ------------------------------------------------------------ effects

\* an effect that does not wait for a draft
FetchThemesFiresWithoutDraft(d, g) ==
    /\ d # draftResult \/ Len(g) # Len(gammaThemes)
    /\ Len(g) = 0

\* useEffect(fetchThemes, [draftResult, gammaThemes.length]) as it runs after
\* a render that changed a dependency: d, g are the rendered draftResult and
\* gammaThemes, lt, pe the loadingThemes and pptxError of that render, fs the
\* catalog calls in flight.
FetchThemesFires(d, g) ==
    /\ d # draftResult \/ Len(g) # Len(gammaThemes)
    /\ Truthy(d) /\ Len(g) = 0

FetchThemesEffect(d, g, lt, pe, fs) ==
    IF FetchThemesFires(d, g)
    THEN /\ HasFreeFetch(fs)
         /\ loadingThemes' = TRUE
         /\ pptxError' = NoError
         /\ fetches' = [fs EXCEPT ![FreeFetchSlot(fs)] =
                            [FreeFetch EXCEPT !.pc = "sent"]]
    ELSE /\ loadingThemes' = lt
         /\ pptxError' = pe
         /\ fetches' = fs

\* ------------------------------------------------------------ responses

\* A response of the export backend as the code reads it: http is
\* response.status (NoResponse when fetch itself rejects), body is
\* response.text(), and the last field is response.json() of an ok response.

SubmitReply(http, body, generationId) ==
    [http |-> http, body |-> body, generationId |-> generationId]

\* GammaGenerationStatusResponse
StatusResult(status, url, err) == [status |-> status, pptxUrl |-> url, error |-> err]
PollReply(http, body, result) == [http |-> http, body |-> body, result |-> result]

\* ------------------------------------------------------------ files

\* File: name and type as the browser reports them, bytes for what is in it
File(name, type, bytes) == [name |-> name, type |-> type, bytes |-> bytes]

SheetType == "application/vnd.openxmlformats-officedocument.spreadsheetml.sheet"
DotXlsx == <<".", "x", "l", "s", "x">>
DotCsv == <<".", "c", "s", "v">>

\* GeminiPart = InlineDataPart | TextPart: an object with the key text or
\* the key inlineData; Absent for the key the object does not have
Absent == [absent |-> TRUE]
TextPart(text) == [text |-> text, inlineData |-> Absent]
InlineDataPart(mimeType, data) ==
    [text |-> Absent, inlineData |-> [mimeType |-> mimeType, data |-> data]]

\* `Conteudo do arquivo <label> "<name>":\n\n<textContent>`
FileText(label, name, textContent) ==
    [label |-> label, name |-> name, textContent |-> textContent]

\* what convertExcelToText, fileToText and fileToBase64 resolve with
ExcelTextOf(bytes) == [reader |-> "convertExcelToText", of |-> bytes]
TextOf(bytes) == [reader |-> "fileToText", of |-> bytes]
Base64Of(bytes) == [reader |-> "fileToBase64", of |-> bytes]

\* a callback that tests for CSV first
FilePartCsvFirst(file) ==
    LET fileType == file.type
        fileName == toLowerCase(file.name)
    IN IF fileType = "text/csv" \/ endsWith(fileName, DotCsv)
       THEN TextPart(FileText("CSV", file.name, TextOf(file.bytes)))
       ELSE IF fileType = SheetType \/ endsWith(fileName, DotXlsx)
       THEN TextPart(FileText("Excel", file.name, ExcelTextOf(file.bytes)))
       ELSE InlineDataPart(file.type, Base64Of(file.bytes))

\* the callback of knowledgeBaseFiles.map for a file whose read succeeded
\* (the image/ branch and the last branch build the same part)
FilePart(file) ==
    LET fileType == file.type
        fileName == toLowerCase(file.name)
    IN IF fileType = SheetType \/ endsWith(fileName, DotXlsx)
       THEN TextPart(FileText("Excel", file.name, ExcelTextOf(file.bytes)))
       ELSE IF fileType = "text/csv" \/ endsWith(fileName, DotCsv)
       THEN TextPart(FileText("CSV", file.name, TextOf(file.bytes)))
       ELSE InlineDataPart(file.type, Base64Of(file.bytes))

\* the outcome of reading a file: read, or rejected with an Error (message
\* as given) or with something that is not an Error (the FileReader's event)
ReadOk == [ok |-> TRUE, isError |-> FALSE, message |-> ""]
ReadThrows(message) == [ok |-> FALSE, isError |-> TRUE, message |-> message]
ReadErrorEvent == [ok |-> FALSE, isError |-> FALSE, message |-> ""]

\* a read that has not settled
ReadPending == [pending |-> TRUE]

\* results kept in the order the reads complete
PlaceReadInArrivalOrder(reads, i, part) ==
    LET k == CHOOSE k \in DOMAIN reads :
                 /\ reads[k] = ReadPending
                 /\ \A j \in 1..(k - 1) : reads[j] # ReadPending
    IN [reads EXCEPT ![k] = part]

\* Promise.all: the result of the i-th promise is the i-th element
PlaceRead(reads, i, part) == [reads EXCEPT ![i] = part]

\* err instanceof Error ? err.message : 'Ocorreu um erro desconhecido.'
ErrorMessage(reply) ==
    IF reply.isError THEN reply.message ELSE "Ocorreu um erro desconhecido."

\* { text: fullUserPrompt }
PromptPart == TextPart(FileText("prompt", <<>>, [reader |-> "userPrompt", of |-> ""]))

\* parts: [{ text: fullUserPrompt }, ...fileParts]
Contents(fileParts) == <<PromptPart>> \o fileParts

DraftGenerationFailed ==
    "Failed to generate report draft. Please check the console for details."

\* ------------------------------------------------------------ suggestions

\* what ai.models.generateContent gives a suggestion call: a response with
\* text, or a throw
SuggestionReply(ok, text) == [ok |-> ok, text |-> text]

\* generateImagePromptSuggestion / generateImageStyleSuggestion: the body is
\* the same, try { return response.text.trim().replace(/"/g, '') } catch
\* { return '' }
generateImagePromptSuggestion(reply) ==
    IF reply.ok THEN removeQuotes(trim(reply.text)) ELSE <<>>

generateImageStyleSuggestion(reply) ==
    IF reply.ok THEN removeQuotes(trim(reply.text)) ELSE <<>>

\* ------------------------------------------------------------ chat widget

\* getInitialSystemInstruction: the report assistant with the report text
\* interpolated, or the general assistant
getInitialSystemInstruction(context) ==
    IF Truthy(context)
    THEN [role |-> "report assistant", report |-> context]
    ELSE [role |-> "general assistant", report |-> NULL]

\* chatRef.current: null, or the session ai.chats.create returned
NoChat == [created |-> FALSE]
Chat(systemInstruction) == [created |-> TRUE, systemInstruction |-> systemInstruction]

Message(role, text) == [role |-> role, text |-> text]

\* the first message of a session
InitialMessage(context) ==
    Message("model",
            IF Truthy(context)
            THEN <<"Ola! O rascunho do seu relatorio foi gerado.">>
            ELSE <<"Ola! Sou a MARI.">>)

ChatUnavailable == Message("model", <<"Desculpe, nao consegui iniciar o chat.">>)
ChatFailed == Message("model", <<"Desculpe, ocorreu um erro.">>)

\* no handleSendMessage in flight
NoStream == [phase |-> "idle", text |-> <<>>, modelMessageExists |-> FALSE]

\* ChatWidget's effect on [isOpen, reportContext], run with the values of
\* the render that triggered it
ChatSessionEffect(open, context) ==
    IF open
    THEN IF chatApiKey
         THEN /\ chatRef' = Chat(getInitialSystemInstruction(context))
              /\ messages' = <<InitialMessage(context)>>
         ELSE /\ chatRef' = chatRef
              /\ messages' = <<ChatUnavailable>>
    ELSE /\ chatRef' = NoChat
         /\ messages' = <<>>

\* a generator whose draft changes leave an open chat as it was
ReportContextEffectKeepsSession(draft) ==
    /\ reportContext' = draft
    /\ UNCHANGED <<chatRef, messages, isOpen, chatLoading, stream>>

\* ReportGenerator's effect on [draftResult]: setReportContext(draftResult);
\* App renders again when the value changed, and ChatWidget's effect runs
ReportContextEffect(draft) ==
    /\ reportContext' = draft
    /\ IF draft # reportContext
       THEN ChatSessionEffect(isOpen, draft)
       ELSE UNCHANGED <<chatRef, messages>>
    /\ UNCHANGED <<isOpen, chatLoading, stream>>

\* the floating button and the close button: setIsOpen, then the effect
ToggleChat ==
    /\ isOpen' = ~isOpen
    /\ ChatSessionEffect(~isOpen, reportContext)
    /\ UNCHANGED <<reportContext, chatLoading, stream>>
    /\ UNCHANGED <<uiVars, procVars, envVars, clsVars, draftVars, fnVars>>

\* handleSendMessage up to its await sendMessageStream
HandleSendMessage(input) ==
    /\ trim(input) # <<>>
    /\ ~chatLoading
    /\ chatRef # NoChat
    /\ Len(messages) < MaxMessages
    /\ messages' = Append(messages, Message("user", input))
    /\ chatLoading' = TRUE
    /\ stream' = [phase |-> "open", text |-> <<>>, modelMessageExists |-> FALSE]
    /\ UNCHANGED <<reportContext, isOpen, chatRef>>
    /\ UNCHANGED <<uiVars, procVars, envVars, clsVars, draftVars, fnVars>>

\* one iteration of for await (const chunk of result): text += chunk.text and
\* the setMessages updater. The updater reads prev[prev.length - 1].role:
\* on an empty list it throws while React renders, and the page unmounts.
StreamChunk(chunk) ==
    /\ stream.phase = "open"
    /\ Len(stream.text) < MaxChunks
    /\ LET text == stream.text \o chunk
       IN IF messages = <<>>
          THEN /\ stream' = [stream EXCEPT !.phase = "crashed", !.text = text]
               /\ UNCHANGED messages
          ELSE IF messages[Len(messages)].role = "model"
          THEN /\ messages' = [messages EXCEPT ![Len(messages)] = Message("model", text)]
               /\ stream' = [stream EXCEPT !.text = text]
          ELSE IF ~stream.modelMessageExists
          THEN /\ messages' = Append(messages, Message("model", text))
               /\ stream' = [stream EXCEPT !.text = text, !.modelMessageExists = TRUE]
          ELSE /\ stream' = [stream EXCEPT !.text = text]
               /\ UNCHANGED messages
    /\ UNCHANGED <<reportContext, isOpen, chatLoading, chatRef>>
    /\ UNCHANGED <<uiVars, procVars, envVars, clsVars, draftVars, fnVars>>

\* the stream is exhausted: finally
StreamEnds ==
    /\ stream.phase = "open"
    /\ chatLoading' = FALSE
    /\ stream' = NoStream
    /\ UNCHANGED <<reportContext, isOpen, messages, chatRef>>
    /\ UNCHANGED <<uiVars, procVars, envVars, clsVars, draftVars, fnVars>>

\* sendMessageStream or the stream throws: catch and finally
StreamFails ==
    /\ stream.phase = "open"
    /\ messages' = Append(messages, ChatFailed)
    /\ chatLoading' = FALSE
    /\ stream' = NoStream
    /\ UNCHANGED <<reportContext, isOpen, chatRef>>
    /\ UNCHANGED <<uiVars, procVars, envVars, clsVars, draftVars, fnVars>>

\* the page is still mounted
Mounted == stream.phase # "crashed"

\* what the render shows: {draftResult && ...} for the reset button and the
\* result view with its export controls, className={draftResult ? 'hidden'
\* : 'block'} for the wizard form
ResultViewShown == Truthy(draftResult)
WizardFormShown == ~Truthy(draftResult)

\* ------------------------------------------------------------ user actions

\* handleFileChange: the file input of the form
HandleFileChange(selectedFiles) ==
    /\ ~Truthy(draftResult)
    /\ knowledgeBaseFiles' = knowledgeBaseFiles \o selectedFiles
    /\ UNCHANGED <<uiVars, procVars, envVars, sources, imagePrompt, imageStylePrompt,
                   clsVars, fnVars, chatVars>>

\* removeFile(index)
RemoveFile(index) ==
    /\ ~Truthy(draftResult)
    /\ index \in DOMAIN knowledgeBaseFiles
    /\ knowledgeBaseFiles' =
           [i \in 1..(Len(knowledgeBaseFiles) - 1) |->
               IF i < index THEN knowledgeBaseFiles[i] ELSE knowledgeBaseFiles[i + 1]]
    /\ UNCHANGED <<uiVars, procVars, envVars, sources, imagePrompt, imageStylePrompt,
                   clsVars, fnVars, chatVars>>

\* handleSubmitDraft up to its first await that waits for something
\* ("Gerar Rascunho": shown while no draft is shown, disabled={!!loading}):
\* the file reads are started, and with no file to read generateReportDraft
\* is called
HandleSubmitDraft ==
    /\ ~Truthy(draftResult)
    /\ loading = NULL
    /\ HasFreeRun(runs)
    /\ loading' = "draft"
    /\ error' = NULL
    /\ draftResult' = NULL
    /\ sources' = <<>>
    /\ isEditing' = FALSE
    /\ pptxUrl' = NULL
    /\ gammaThemes' = <<>>
    /\ selectedGammaTheme' = ""
    /\ runs' = [runs EXCEPT ![FreeRunSlot(runs)] =
           IF knowledgeBaseFiles = <<>>
           THEN [FreeRun EXCEPT !.phase = "draft", !.contents = Contents(<<>>)]
           ELSE [FreeRun EXCEPT !.phase = "files", !.files = knowledgeBaseFiles,
                                !.reads = [i \in DOMAIN knowledgeBaseFiles |-> ReadPending]]]
    /\ FetchThemesEffect(NULL, <<>>, loadingThemes, NoError, fetches)
    /\ UNCHANGED <<editedDraft, loadingSuggestions, isPptLoading, jobs, envVars,
                   imagePrompt, imageStylePrompt, knowledgeBaseFiles, clsVars, fnVars>>
    /\ ReportContextEffect(NULL)

\* a handler that leaves out a file it could not read
FileReadRejectsSendsRest(r, reply) ==
    /\ runs' = [runs EXCEPT ![r] =
           [@ EXCEPT !.phase = "draft",
                     !.contents = Contents(SelectSeq(runs[r].reads,
                                               LAMBDA p : p # ReadPending))]]
    /\ UNCHANGED <<error, loading>>

\* handleSubmitDraft when a file read threw: Promise.all rejects, catch and
\* finally; the reads still under way are left to themselves
FileReadRejects(r, reply) ==
    /\ error' = ErrorMessage(reply)
    /\ loading' = NULL
    /\ runs' = [runs EXCEPT ![r] = [@ EXCEPT !.phase = "failed"]]

\* the read of file i of run r settles; when it was the last one and none
\* threw, Promise.all resolves and generateReportDraft is called
FileReadSettles(r, i, reply) ==
    /\ runs[r].phase = "files"
    /\ i \in DOMAIN runs[r].reads
    /\ runs[r].reads[i] = ReadPending
    /\ IF ~reply.ok
       THEN FileReadRejects(r, reply)
       ELSE LET fileParts == PlaceRead(runs[r].reads, i, FilePart(runs[r].files[i]))
            IN /\ runs' = [runs EXCEPT ![r] =
                      IF \E k \in DOMAIN fileParts : fileParts[k] = ReadPending
                      THEN [@ EXCEPT !.reads = fileParts]
                      ELSE [@ EXCEPT !.reads = fileParts, !.phase = "draft",
                                     !.contents = Contents(fileParts)]]
               /\ UNCHANGED <<error, loading>>
    /\ UNCHANGED <<draftResult, editedDraft, isEditing, loadingSuggestions, gammaThemes,
                   selectedGammaTheme, loadingThemes, pptxUrl, pptxError, isPptLoading,
                   fetches, jobs, envVars, draftVars, clsVars, fnVars, chatVars>>

\* no groundingChunks in the response
NoChunks == [chunks |-> <<>>, defined |-> FALSE]
Chunks(chunks) == [chunks |-> chunks, defined |-> TRUE]

\* handleSubmitDraft after generateReportDraft resolved with text: the draft
\* and its sources are stored and the two suggestion calls are issued
DraftResolves(r, text, groundingChunks) ==
    /\ runs[r].phase = "draft"
    /\ draftResult' = text
    /\ editedDraft' = text
    /\ sources' = IF groundingChunks.defined THEN groundingChunks.chunks ELSE sources
    /\ loadingSuggestions' = TRUE
    /\ runs' = [runs EXCEPT ![r] =
           [@ EXCEPT !.phase = "suggest", !.promptCall = Called, !.styleCall = Called]]
    /\ FetchThemesEffect(text, gammaThemes, loadingThemes, pptxError, fetches)
    /\ UNCHANGED <<isEditing, loading, error, gammaThemes, selectedGammaTheme, pptxUrl,
                   isPptLoading, jobs, envVars, imagePrompt, imageStylePrompt,
                   knowledgeBaseFiles, clsVars, fnVars>>
    /\ ReportContextEffect(text)

\* a generateReportDraft that lets the cause through
generateReportDraftRethrows(cause) == cause

\* generateReportDraft's catch: whatever the cause, the fixed Error is thrown
generateReportDraftCatch(cause) == DraftGenerationFailed

\* handleSubmitDraft after generateReportDraft threw: the outer catch shows
\* err.message, the finally clears loading
DraftRejects(r, cause) ==
    /\ runs[r].phase = "draft"
    /\ error' = generateReportDraftCatch(cause)
    /\ loading' = NULL
    /\ runs' = [runs EXCEPT ![r] = FreeRun]
    /\ UNCHANGED <<draftResult, editedDraft, isEditing, loadingSuggestions, gammaThemes,
                   selectedGammaTheme, loadingThemes, pptxUrl, pptxError, isPptLoading,
                   fetches, jobs, envVars, draftVars, clsVars, fnVars, chatVars>>

\* a handler whose suggestions are both dropped when one of them failed
SuggestionsSettleBothOrNone(r, promptSuggestion, styleSuggestion) ==
    /\ imagePrompt' =
           IF promptSuggestion = <<>> \/ styleSuggestion = <<>>
           THEN imagePrompt ELSE promptSuggestion
    /\ imageStylePrompt' =
           IF promptSuggestion = <<>> \/ styleSuggestion = <<>>
           THEN imageStylePrompt ELSE styleSuggestion
    /\ loadingSuggestions' = FALSE
    /\ loading' = NULL
    /\ runs' = [runs EXCEPT ![r] = FreeRun]

\* handleSubmitDraft after Promise.all of the two suggestion calls resolved
\* (neither call throws), through both finally blocks
SuggestionsSettle(r, promptSuggestion, styleSuggestion) ==
    /\ imagePrompt' = promptSuggestion
    /\ imageStylePrompt' = styleSuggestion
    /\ loadingSuggestions' = FALSE
    /\ loading' = NULL
    /\ runs' = [runs EXCEPT ![r] = FreeRun]

\* a handler that fills the two fields in the order the calls returned
PromptSuggestionReturnsInArrivalOrder(r, reply) ==
    /\ runs[r].phase = "suggest"
    /\ runs[r].promptCall = Called
    /\ LET promptSuggestion == generateImagePromptSuggestion(reply)
       IN IF runs[r].styleCall.state = "returned"
          THEN SuggestionsSettle(r, runs[r].styleCall.value, promptSuggestion)
          ELSE /\ runs' = [runs EXCEPT ![r] =
                      [@ EXCEPT !.promptCall = Returned(promptSuggestion)]]
               /\ UNCHANGED <<imagePrompt, imageStylePrompt, loadingSuggestions, loading>>
    /\ UNCHANGED <<draftResult, editedDraft, isEditing, error, gammaThemes,
                   selectedGammaTheme, loadingThemes, pptxUrl, pptxError, isPptLoading,
                   fetches, jobs, envVars, sources, knowledgeBaseFiles, clsVars, fnVars,
                   chatVars>>

\* one of the two suggestion calls of run r returns; when the other one has
\* returned too, Promise.all resolves
PromptSuggestionReturns(r, reply) ==
    /\ runs[r].phase = "suggest"
    /\ runs[r].promptCall = Called
    /\ LET promptSuggestion == generateImagePromptSuggestion(reply)
       IN IF runs[r].styleCall.state = "returned"
          THEN SuggestionsSettle(r, promptSuggestion, runs[r].styleCall.value)
          ELSE /\ runs' = [runs EXCEPT ![r] =
                      [@ EXCEPT !.promptCall = Returned(promptSuggestion)]]
               /\ UNCHANGED <<imagePrompt, imageStylePrompt, loadingSuggestions, loading>>
    /\ UNCHANGED <<draftResult, editedDraft, isEditing, error, gammaThemes,
                   selectedGammaTheme, loadingThemes, pptxUrl, pptxError, isPptLoading,
                   fetches, jobs, envVars, sources, knowledgeBaseFiles, clsVars, fnVars, chatVars>>

StyleSuggestionReturns(r, reply) ==
    /\ runs[r].phase = "suggest"
    /\ runs[r].styleCall = Called
    /\ LET styleSuggestion == generateImageStyleSuggestion(reply)
       IN IF runs[r].promptCall.state = "returned"
          THEN SuggestionsSettle(r, runs[r].promptCall.value, styleSuggestion)
          ELSE /\ runs' = [runs EXCEPT ![r] =
                      [@ EXCEPT !.styleCall = Returned(styleSuggestion)]]
               /\ UNCHANGED <<imagePrompt, imageStylePrompt, loadingSuggestions, loading>>
    /\ UNCHANGED <<draftResult, editedDraft, isEditing, error, gammaThemes,
                   selectedGammaTheme, loadingThemes, pptxUrl, pptxError, isPptLoading,
                   fetches, jobs, envVars, sources, knowledgeBaseFiles, clsVars, fnVars, chatVars>>

\* resetGeneratorState ("Gerar Novo Relatorio": shown while a draft is shown)
ResetGeneratorState ==
    /\ Truthy(draftResult)
    /\ loading' = NULL
    /\ error' = NULL
    /\ draftResult' = NULL
    /\ isEditing' = FALSE
    /\ editedDraft' = ""
    /\ isPptLoading' = FALSE
    /\ pptxUrl' = NULL
    /\ gammaThemes' = <<>>
    /\ selectedGammaTheme' = ""
    /\ loadingSuggestions' = FALSE
    /\ sources' = <<>>
    /\ imagePrompt' = <<>>
    /\ imageStylePrompt' = <<>>
    /\ knowledgeBaseFiles' = <<>>
    /\ FetchThemesEffect(NULL, <<>>, loadingThemes, NoError, fetches)
    /\ UNCHANGED <<runs, jobs, envVars, clsVars, fnVars>>
    /\ ReportContextEffect(NULL)

\* "Editar"
StartEdit ==
    /\ Truthy(draftResult)
    /\ ~isEditing
    /\ isEditing' = TRUE
    /\ UNCHANGED <<draftResult, editedDraft, loading, error, loadingSuggestions, gammaThemes,
                   selectedGammaTheme, loadingThemes, pptxUrl, pptxError, isPptLoading,
                   procVars, envVars, draftVars, clsVars, fnVars, chatVars>>

\* the textarea's onChange
TypeEdit(text) ==
    /\ Truthy(draftResult)
    /\ isEditing
    /\ editedDraft' = text
    /\ UNCHANGED <<draftResult, isEditing, loading, error, loadingSuggestions, gammaThemes,
                   selectedGammaTheme, loadingThemes, pptxUrl, pptxError, isPptLoading,
                   procVars, envVars, draftVars, clsVars, fnVars, chatVars>>

\* "Cancelar"
CancelEdit ==
    /\ Truthy(draftResult)
    /\ isEditing
    /\ isEditing' = FALSE
    /\ UNCHANGED <<draftResult, editedDraft, loading, error, loadingSuggestions, gammaThemes,
                   selectedGammaTheme, loadingThemes, pptxUrl, pptxError, isPptLoading,
                   procVars, envVars, draftVars, clsVars, fnVars, chatVars>>

\* handleSaveEdit ("Salvar Rascunho")
HandleSaveEdit ==
    /\ Truthy(draftResult)
    /\ isEditing
    /\ draftResult' = editedDraft
    /\ isEditing' = FALSE
    /\ FetchThemesEffect(editedDraft, gammaThemes, loadingThemes, pptxError, fetches)
    /\ UNCHANGED <<editedDraft, loading, error, loadingSuggestions, gammaThemes,
                   selectedGammaTheme, pptxUrl, isPptLoading, runs, jobs, envVars, draftVars, clsVars, fnVars>>
    /\ ReportContextEffect(editedDraft)

\* the theme <select>: disabled={loadingThemes || gammaThemes.length === 0 ||
\* isPptLoading}, one option per catalog entry
SelectGammaTheme(id) ==
    /\ Truthy(draftResult)
    /\ ~loadingThemes /\ Len(gammaThemes) # 0 /\ ~isPptLoading
    /\ \E i \in DOMAIN gammaThemes : gammaThemes[i].id = id
    /\ selectedGammaTheme' = id
    /\ UNCHANGED <<draftResult, editedDraft, isEditing, loading, error, loadingSuggestions,
                   gammaThemes, loadingThemes, pptxUrl, pptxError, isPptLoading,
                   procVars, envVars, draftVars, clsVars, fnVars, chatVars>>

\* a "Gerar PPTX" button that waits for the suggestions
PptxButtonDisabledWhileSuggesting ==
    ~Truthy(draftResult) \/ isEditing \/ isPptLoading \/ ~Truthy(selectedGammaTheme)
        \/ loadingSuggestions \/ loading # NULL

\* "Gerar PPTX": disabled={!draftResult || isEditing || isPptLoading ||
\* !selectedGammaTheme}
PptxButtonDisabled ==
    ~Truthy(draftResult) \/ isEditing \/ isPptLoading \/ ~Truthy(selectedGammaTheme)

\* handleGeneratePptx up to the POST of generatePresentation
HandleGeneratePptx ==
    /\ ~PptxButtonDisabled
    /\ HasFreeJob(jobs)
    /\ isPptLoading' = TRUE
    /\ pptxError' = NoError
    /\ pptxUrl' = NULL
    /\ jobs' = [jobs EXCEPT ![FreeJobSlot(jobs)] =
                    [FreeJob EXCEPT !.phase = "submit", !.markdownContent = draftResult,
                                    !.body = generationBody(draftResult, selectedGammaTheme,
                                                            ImageStyle(imageStylePrompt))]]
    /\ UNCHANGED <<draftResult, editedDraft, isEditing, loading, error, loadingSuggestions,
                   gammaThemes, selectedGammaTheme, loadingThemes, runs, fetches,
                   envVars, draftVars, clsVars, fnVars, chatVars>>

\* ------------------------------------------------------------ catalog fetch

\* the backend (or the proxy in front of it) answers the page request of f
BackendReplies(f, reply) ==
    /\ fetches[f].pc = "sent"
    /\ fetches' = [fetches EXCEPT ![f] = [@ EXCEPT !.pc = "replied", !.reply = reply]]
    /\ UNCHANGED <<uiVars, runs, jobs, envVars, draftVars, clsVars, fnVars, chatVars>>

\* a fetch that hands the pages it had to the caller when it throws
FetchThemesCatchKeepsPages(f, e) ==
    /\ pptxError' = e
    /\ loadingThemes' = FALSE
    /\ fetches' = [fetches EXCEPT ![f] = [@ EXCEPT !.pc = "failed", !.reply = NoReply]]
    /\ gammaThemes' = fetches[f].allThemes

\* fetchThemes after listGammaThemes threw e: catch and finally
FetchThemesCatch(f, e) ==
    /\ pptxError' = e
    /\ loadingThemes' = FALSE
    /\ fetches' = [fetches EXCEPT ![f] = [@ EXCEPT !.pc = "failed", !.reply = NoReply]]
    /\ UNCHANGED gammaThemes

\* fetchThemes after listGammaThemes returned themes: setGammaThemes and
\* finally, then the effect of the render that follows
FetchThemesReturn(f, themes) ==
    /\ gammaThemes' = themes
    /\ FetchThemesEffect(draftResult, themes, FALSE, pptxError,
                         [fetches EXCEPT ![f] = FreeFetch])

\* one iteration of listGammaThemes' while (hasMore), from the response of
\* the page request to the next request or the return
CatalogResponse(f) ==
    /\ fetches[f].pc = "replied"
    /\ LET reply == fetches[f].reply
       IN IF reply.http = NoResponse
          THEN FetchThemesCatch(f, NetworkError)
          ELSE IF CatalogResponseError(reply.http, reply.body) # NoError
          THEN FetchThemesCatch(f, CatalogResponseError(reply.http, reply.body))
          ELSE LET allThemes == AppendPage(fetches[f].allThemes, reply.page.data)
                   afterCursor == reply.page.nextCursor
               IN IF reply.page.hasMore
                  THEN /\ fetches' = [fetches EXCEPT ![f] =
                             [pc |-> "sent", allThemes |-> allThemes,
                              after |-> IF Truthy(afterCursor) THEN afterCursor ELSE NULL,
                              reply |-> NoReply]]
                       /\ UNCHANGED <<gammaThemes, loadingThemes, pptxError>>
                  ELSE FetchThemesReturn(f, allThemes)
    /\ UNCHANGED <<draftResult, editedDraft, isEditing, loading, error, loadingSuggestions,
                   selectedGammaTheme, pptxUrl, isPptLoading, runs, jobs, envVars, draftVars, clsVars, fnVars, chatVars>>

\* ------------------------------------------------------------ export job

\* handleGeneratePptx after generatePresentation settled: what the promise
\* of job j turned into decides between setPptxUrl and the catch; finally
ExportReturns(before, after) ==
    IF before.state = "pending" /\ after.state = "resolved"
    THEN /\ pptxUrl' = after.url
         /\ isPptLoading' = FALSE
         /\ UNCHANGED pptxError
    ELSE IF before.state = "pending" /\ after.state = "rejected"
    THEN /\ pptxError' = after.error
         /\ isPptLoading' = FALSE
         /\ UNCHANGED pptxUrl
    ELSE UNCHANGED <<pptxUrl, pptxError, isPptLoading>>

\* generatePresentation from the response of POST /generations to the start
\* of the poll loop (setInterval) or the throw
SubmitResponse(j, reply) ==
    /\ jobs[j].phase = "submit"
    /\ LET e == IF reply.http = NoResponse THEN NetworkError
                ELSE SubmitResponseError(reply.http, reply.body)
           promise == IF e # NoError THEN Settle(jobs[j].promise, Rejected(e))
                      ELSE jobs[j].promise
       IN /\ jobs' = [jobs EXCEPT ![j] =
                 IF e # NoError
                 THEN [@ EXCEPT !.phase = "aborted", !.promise = promise, !.body = NoBody,
                                !.markdownContent = NULL]
                 ELSE [@ EXCEPT !.phase = "poll", !.generationId = reply.generationId,
                                !.body = NoBody]]
          /\ ExportReturns(jobs[j].promise, promise)
    /\ UNCHANGED <<draftResult, editedDraft, isEditing, loading, error, loadingSuggestions,
                   gammaThemes, selectedGammaTheme, loadingThemes, runs, fetches,
                   envVars, draftVars, clsVars, fnVars, chatVars>>

\* the callback without its attempts > maxAttempts branch
PollTickNoCeiling(j) ==
    /\ TimerActive(jobs[j])
    /\ jobs' = [jobs EXCEPT ![j] =
           [@ EXCEPT !.attempts = @ + 1, !.requests = @ + 1, !.inflight = @ + 1]]
    /\ UNCHANGED <<uiVars, runs, fetches, envVars, draftVars, clsVars, fnVars, chatVars>>

\* a callback that returns at once while a status request is outstanding
PollTickSkipsWhileWaiting(j) ==
    /\ TimerActive(jobs[j])
    /\ LET attempts == jobs[j].attempts + 1
           promise == IF attempts > maxAttempts
                      THEN Settle(jobs[j].promise, Rejected(ExportTimedOutError))
                      ELSE jobs[j].promise
       IN IF jobs[j].inflight > 0
          THEN UNCHANGED <<jobs, pptxUrl, pptxError, isPptLoading>>
          ELSE /\ jobs' = [jobs EXCEPT ![j] =
                      IF attempts > maxAttempts
                      THEN [@ EXCEPT !.attempts = attempts, !.phase = "stopped",
                                     !.promise = promise, !.markdownContent = NULL]
                      ELSE [@ EXCEPT !.attempts = attempts, !.requests = @ + 1,
                                     !.inflight = @ + 1,
                                     !.request = StatusRequest(jobs[j].generationId)]]
               /\ ExportReturns(jobs[j].promise, promise)
    /\ UNCHANGED <<draftResult, editedDraft, isEditing, loading, error, loadingSuggestions,
                   gammaThemes, selectedGammaTheme, loadingThemes, runs, fetches,
                   envVars, draftVars, clsVars, fnVars, chatVars>>

\* a callback that compares the attempts with the ceiling and counts the
\* tick afterwards
PollTickCountsLast(j) ==
    /\ TimerActive(jobs[j])
    /\ LET attempts == jobs[j].attempts + 1
           promise == IF jobs[j].attempts > maxAttempts
                      THEN Settle(jobs[j].promise, Rejected(ExportTimedOutError))
                      ELSE jobs[j].promise
       IN /\ jobs' = [jobs EXCEPT ![j] =
                 IF jobs[j].attempts > maxAttempts
                 THEN [@ EXCEPT !.attempts = attempts, !.phase = "stopped",
                                !.promise = promise, !.markdownContent = NULL]
                 ELSE [@ EXCEPT !.attempts = attempts, !.requests = @ + 1,
                                !.inflight = @ + 1,
                                !.request = StatusRequest(jobs[j].generationId)]]
          /\ ExportReturns(jobs[j].promise, promise)
    /\ UNCHANGED <<draftResult, editedDraft, isEditing, loading, error, loadingSuggestions,
                   gammaThemes, selectedGammaTheme, loadingThemes, runs, fetches,
                   envVars, draftVars, clsVars, fnVars, chatVars>>

\* the setInterval callback of pollForPptxGeneration up to its await fetch
PollTick(j) ==
    /\ TimerActive(jobs[j])
    /\ LET attempts == jobs[j].attempts + 1
           promise == IF attempts > maxAttempts
                      THEN Settle(jobs[j].promise, Rejected(ExportTimedOutError))
                      ELSE jobs[j].promise
       IN /\ jobs' = [jobs EXCEPT ![j] =
                 IF attempts > maxAttempts
                 THEN [@ EXCEPT !.attempts = attempts, !.phase = "stopped",
                                !.promise = promise, !.markdownContent = NULL]
                 ELSE [@ EXCEPT !.attempts = attempts, !.requests = @ + 1,
                                !.inflight = @ + 1,
                                !.request = StatusRequest(jobs[j].generationId)]]
          /\ ExportReturns(jobs[j].promise, promise)
    /\ UNCHANGED <<draftResult, editedDraft, isEditing, loading, error, loadingSuggestions,
                   gammaThemes, selectedGammaTheme, loadingThemes, runs, fetches,
                   envVars, draftVars, clsVars, fnVars, chatVars>>

\* a callback that goes on polling after a status request that failed
PollOutcomeRetries(reply) ==
    IF reply.http = NoResponse \/ ~ResponseOk(reply.http) THEN Pending
    ELSE IF reply.result.status = "completed" /\ Truthy(reply.result.pptxUrl)
    THEN Resolved(reply.result.pptxUrl)
    ELSE IF reply.result.status = "failed"
    THEN Rejected(ExportFailedError(reply.result.error))
    ELSE Pending

\* a callback for which completed ends the loop, download URL or not
PollOutcomeCompletedIsTerminal(reply) ==
    IF reply.http = NoResponse THEN Rejected(NetworkError)
    ELSE IF PollResponseError(reply.http, reply.body) # NoError
    THEN Rejected(PollResponseError(reply.http, reply.body))
    ELSE IF reply.result.status = "completed"
    THEN Resolved(reply.result.pptxUrl)
    ELSE IF reply.result.status = "failed"
    THEN Rejected(ExportFailedError(reply.result.error))
    ELSE Pending

\* what the callback does with the response of its status request: the
\* outcome it settles the promise with, Pending when it lets the loop go on
PollOutcome(reply) ==
    IF reply.http = NoResponse THEN Rejected(NetworkError)
    ELSE IF PollResponseError(reply.http, reply.body) # NoError
    THEN Rejected(PollResponseError(reply.http, reply.body))
    ELSE IF reply.result.status = "completed" /\ Truthy(reply.result.pptxUrl)
    THEN Resolved(reply.result.pptxUrl)
    ELSE IF reply.result.status = "failed"
    THEN Rejected(ExportFailedError(reply.result.error))
    ELSE Pending

\* clearInterval(intervalId) wherever the callback settles the promise
StopTimer(phase, outcome) == IF outcome # Pending THEN "stopped" ELSE phase

\* the setInterval callback of pollForPptxGeneration from the response of
\* its status request on
PollResponse(j, reply) ==
    /\ jobs[j].phase \in {"poll", "stopped"}
    /\ jobs[j].inflight > 0
    /\ LET outcome == PollOutcome(reply)
           promise == IF outcome # Pending THEN Settle(jobs[j].promise, outcome)
                      ELSE jobs[j].promise
       IN /\ jobs' = [jobs EXCEPT ![j] =
                 [@ EXCEPT !.inflight = @ - 1,
                           !.phase = StopTimer(jobs[j].phase, outcome),
                           !.promise = promise,
                           !.markdownContent = IF outcome # Pending THEN NULL ELSE @]]
          /\ ExportReturns(jobs[j].promise, promise)
    /\ UNCHANGED <<draftResult, editedDraft, isEditing, loading, error, loadingSuggestions,
                   gammaThemes, selectedGammaTheme, loadingThemes, runs, fetches,
                   envVars, draftVars, clsVars, fnVars, chatVars>>

\* ------------------------------------------------------------ inputs

\* response bodies: "/corsdemo", "/CorsDemo", "cors demo", "boom", ""
BodyDemo == <<"/", "c", "o", "r", "s", "d", "e", "m", "o">>
BodyDemoCaps == <<"/", "C", "o", "r", "s", "D", "e", "m", "o">>
BodyNear == <<"c", "o", "r", "s", " ", "d", "e", "m", "o">>
BodyBoom == <<"b", "o", "o", "m">>
Bodies == {BodyDemo, BodyDemoCaps, BodyNear, BodyBoom, <<>>}

T1 == [id |-> "t1", name |-> "Aurora", type |-> "standard"]
T2 == [id |-> "t2", name |-> "Basalt", type |-> "custom"]

DraftTexts == {"draft"}

\* the files the user picks from: spreadsheets by extension (lower and upper
\* case) and by type, CSV by type and by extension, a CSV name with the
\* spreadsheet type, an image, a PDF, a file with neither type nor extension
KnowledgeFiles ==
    { File(<<"a", ".", "x", "l", "s", "x">>, "", "b1"),
      File(<<"r", ".", "X", "L", "S", "X">>, "", "b2"),
      File(<<"h">>, SheetType, "b3"),
      File(<<"c", ".", "c", "s", "v">>, "text/csv", "b4"),
      File(<<"e", ".", "C", "S", "V">>, "", "b5"),
      File(<<"d", ".", "c", "s", "v">>, SheetType, "b6"),
      File(<<"f", ".", "p", "n", "g">>, "image/png", "b7"),
      File(<<"p", ".", "p", "d", "f">>, "application/pdf", "b8"),
      File(<<"g">>, "", "b9") }

FileLists == UNION { [1..n -> KnowledgeFiles] : n \in 1..MaxFiles }

ReadReplies == { ReadOk, ReadThrows("Failed to read file."), ReadErrorEvent }

\* causes of a failed generation: transport, backend, empty answer
DraftFailures == {"Failed to fetch", "API key not valid", "Cannot read properties of undefined"}

UiDraftFailure == "Failed to fetch"

\* the suggestion the generator-level specification explores
UiSuggestionReply == SuggestionReply(TRUE, <<"s">>)

\* answers to a suggestion call: ` "a" `, `b`, and a throw
SuggestionReplies ==
    { SuggestionReply(TRUE, <<" ", "\"", "a", "\"", " ">>),
      SuggestionReply(TRUE, <<"b">>),
      SuggestionReply(FALSE, <<>>) }
EditTexts == {"edit"}
GenerationIds == {"g1", "g2"}

NoResult == StatusResult("", NULL, <<>>)
PendingReply == PollReply(200, <<>>, StatusResult("pending", NULL, <<>>))
CompletedReply(url) == PollReply(200, <<>>, StatusResult("completed", url, <<>>))
FailedReply(err) == PollReply(200, <<>>, StatusResult("failed", NULL, err))

\* every kind of answer to a status request
PollReplies ==
    { PendingReply, CompletedReply("u1"), CompletedReply(NULL),
      FailedReply(BodyBoom), FailedReply(<<>>),
      PollReply(403, BodyDemo, NoResult), PollReply(403, BodyBoom, NoResult),
      PollReply(500, BodyBoom, NoResult), PollReply(NoResponse, <<>>, NoResult) }

\* the answers the generator-level specification explores
UiPollReplies == { PendingReply, CompletedReply("u1"), FailedReply(BodyBoom) }

UiSubmitReplies ==
    { SubmitReply(200, <<>>, "g1"), SubmitReply(403, BodyDemo, NULL) }

UiCatalogReplies ==
    { CatalogReply(200, <<>>, [data |-> <<T1>>, hasMore |-> FALSE, nextCursor |-> NULL]),
      CatalogReply(500, BodyBoom, NoPage) }

\* ------------------------------------------------------------ Spec

\* the component as mounted: every useState initial value, nothing in flight
\* the useState initial values
InitialState ==
    /\ draftResult = NULL
    /\ editedDraft = ""
    /\ isEditing = FALSE
    /\ loading = NULL
    /\ error = NULL
    /\ loadingSuggestions = FALSE
    /\ gammaThemes = <<>>
    /\ selectedGammaTheme = ""
    /\ loadingThemes = FALSE
    /\ pptxUrl = NULL
    /\ pptxError = NoError
    /\ isPptLoading = FALSE
    /\ sources = <<>>
    /\ imagePrompt = <<>>
    /\ imageStylePrompt = <<>>
    /\ knowledgeBaseFiles = <<>>

\* App and ChatWidget as mounted
InitChatWidget ==
    /\ reportContext = NULL
    /\ isOpen = FALSE
    /\ messages = <<>>
    /\ chatLoading = FALSE
    /\ chatRef = NoChat
    /\ stream = NoStream

\* the page as mounted: both components, nothing in flight
InitGenerator ==
    /\ InitChatWidget
    /\ InitialState
    /\ runs = [i \in 1..MaxRuns |-> FreeRun]
    /\ fetches = [i \in 1..MaxFetches |-> FreeFetch]
    /\ jobs = [i \in 1..MaxJobs |-> FreeJob]

NoBackend == [c \in Cursors |-> NoPage]
NoInput == [http |-> NoResponse, body |-> <<>>]
\* a call site that has not seen the response yet
Unclassified == Err("unclassified", NoStatus, <<>>)
Sites == {"catalog", "submit", "poll"}

\* the two suggestion calls answered by the caller of the action
NoSuggestionScript == [prompt |-> SuggestionReply(FALSE, <<>>), style |-> SuggestionReply(FALSE, <<>>)]

InitIdleEnv ==
    /\ backend = NoBackend
    /\ pollScript = <<>>
    /\ suggestionScript = NoSuggestionScript
    /\ chatApiKey = TRUE

InitIdleCls ==
    /\ clsInput = NoInput
    /\ clsResult = [site \in Sites |-> Unclassified]

\* no pure function under test
NoArgument == [kind |-> "none"]
NoValue == [kind |-> "none"]

InitIdleFn ==
    /\ fnInput = NoArgument
    /\ fnOutput = NoValue

Init == InitGenerator /\ InitIdleEnv /\ InitIdleCls /\ InitIdleFn

DraftSteps ==
    \/ HandleSubmitDraft
    \/ \E r \in 1..MaxRuns, text \in DraftTexts : DraftResolves(r, text, NoChunks)
    \/ \E r \in 1..MaxRuns : DraftRejects(r, UiDraftFailure)
    \/ \E r \in 1..MaxRuns : PromptSuggestionReturns(r, UiSuggestionReply)
    \/ \E r \in 1..MaxRuns : StyleSuggestionReturns(r, UiSuggestionReply)

EditSteps ==
    \/ StartEdit
    \/ \E text \in EditTexts : TypeEdit(text)
    \/ CancelEdit
    \/ HandleSaveEdit

Next ==
    \/ DraftSteps
    \/ ResetGeneratorState
    \/ EditSteps
    \/ \E id \in {"t1", "t2"} : SelectGammaTheme(id)
    \/ HandleGeneratePptx
    \/ \E f \in 1..MaxFetches, reply \in UiCatalogReplies : BackendReplies(f, reply)
    \/ \E f \in 1..MaxFetches : CatalogResponse(f)
    \/ \E j \in 1..MaxJobs, reply \in UiSubmitReplies : SubmitResponse(j, reply)
    \/ \E j \in 1..MaxJobs : jobs[j].attempts < MaxUiTicks /\ PollTick(j)
    \/ \E j \in 1..MaxJobs, reply \in UiPollReplies : PollResponse(j, reply)

Spec == Init /\ [][Next]_vars

\* ------------------------------------------------------------ SpecPoll
\* One export, from the mounted component to the end of its poll loop, with
\* every kind of answer to a status request and no bound on the ticks.

OnePageReply ==
    CatalogReply(200, <<>>, [data |-> <<T1>>, hasMore |-> FALSE, nextCursor |-> NULL])

NoJobYet == \A j \in 1..MaxJobs : jobs[j].phase = "free"

\* a draft, the catalog and a selected theme: what an export needs
ThemeSetup ==
    \/ HandleSubmitDraft
    \/ \E r \in 1..MaxRuns, text \in DraftTexts : DraftResolves(r, text, NoChunks)
    \/ \E f \in 1..MaxFetches : BackendReplies(f, OnePageReply)
    \/ \E f \in 1..MaxFetches : CatalogResponse(f)
    \/ SelectGammaTheme("t1")

ExportSetup ==
    \/ ThemeSetup
    \/ NoJobYet /\ HandleGeneratePptx
    \/ \E j \in 1..MaxJobs : SubmitResponse(j, SubmitReply(200, <<>>, "g1"))

NextPoll ==
    \/ ExportSetup
    \/ \E j \in 1..MaxJobs : PollTick(j)
    \/ \E j \in 1..MaxJobs, reply \in PollReplies : PollResponse(j, reply)

SpecPoll == Init /\ [][NextPoll]_vars

\* ------------------------------------------------------------ SpecScript
\* One export against a backend that answers the status requests from a
\* script, in the order the requests were sent.

ScriptCompletes == <<PendingReply, PendingReply, CompletedReply("u1")>>
ScriptAllPending == [i \in 1..(maxAttempts + 1) |-> PendingReply]
\* a generation that is reported completed and never gets its download URL
ScriptNeverExports == [i \in 1..maxAttempts |-> CompletedReply(NULL)]
Scripts == {ScriptCompletes, ScriptAllPending, ScriptNeverExports}

InitScript ==
    /\ InitGenerator
    /\ backend = NoBackend
    /\ pollScript \in Scripts
    /\ suggestionScript = NoSuggestionScript
    /\ chatApiKey = TRUE
    /\ InitIdleCls
    /\ InitIdleFn

ScriptedPollResponse(j) ==
    /\ jobs[j].phase \in {"poll", "stopped"}
    /\ StatusResponses(jobs[j]) < Len(pollScript)
    /\ PollResponse(j, pollScript[StatusResponses(jobs[j]) + 1])

NextScript ==
    \/ ExportSetup
    \/ \E j \in 1..MaxJobs : PollTick(j)
    \/ \E j \in 1..MaxJobs : ScriptedPollResponse(j)

SpecScript == InitScript /\ [][NextScript]_vars

\* ------------------------------------------------------------ SpecCatalog
\* One catalog fetch against a backend that serves, for each cursor, a fixed
\* page, and that may answer any request with a failure instead.

MaxCatalogLen == Cardinality(Cursors) * MaxPageLen

CatalogFailures ==
    { CatalogReply(500, BodyBoom, NoPage), CatalogReply(403, BodyDemo, NoPage),
      CatalogReply(NoResponse, <<>>, NoPage) }

InitCatalog ==
    /\ InitGenerator
    /\ backend \in [Cursors -> Pages(MaxPageLen)]
    /\ pollScript = <<>>
    /\ suggestionScript = NoSuggestionScript
    /\ chatApiKey = TRUE
    /\ InitIdleCls
    /\ InitIdleFn

\* the backend serves the page that the `after` of the request selects
BackendServes(f) ==
    /\ Len(fetches[f].allThemes) + Len(backend[fetches[f].after].data) <= MaxCatalogLen
    /\ BackendReplies(f, CatalogReply(200, <<>>, backend[fetches[f].after]))

BackendAnswers ==
    \/ \E f \in 1..MaxFetches : BackendServes(f)
    \/ \E f \in 1..MaxFetches, reply \in CatalogFailures : BackendReplies(f, reply)

CatalogSetup ==
    \/ HandleSubmitDraft
    \/ \E r \in 1..MaxRuns, text \in DraftTexts : DraftResolves(r, text, NoChunks)

NextCatalog ==
    \/ CatalogSetup
    \/ BackendAnswers
    \/ \E f \in 1..MaxFetches : CatalogResponse(f)

\* every request is answered, every answer is processed
SpecCatalog ==
    /\ InitCatalog
    /\ [][NextCatalog]_vars
    /\ WF_vars(BackendAnswers)
    /\ WF_vars(\E f \in 1..MaxFetches : CatalogResponse(f))

\* ------------------------------------------------------------ SpecClassify
\* One response, handed to the response check of each of the three call
\* sites of the export backend.

Statuses == {200, 204, 299, 300, 401, 403, 404, 500}

InitClassify ==
    /\ InitGenerator
    /\ InitIdleEnv
    /\ InitIdleFn
    /\ clsInput \in [http : Statuses, body : Bodies]
    /\ clsResult = [site \in Sites |-> Unclassified]

\* the `if (!response.ok)` block of a call site
SiteResponseError(site, status, errorText) ==
    CASE site = "catalog" -> CatalogResponseError(status, errorText)
      [] site = "submit" -> SubmitResponseError(status, errorText)
      [] site = "poll" -> PollResponseError(status, errorText)

Classify(site) ==
    /\ clsResult[site] = Unclassified
    /\ clsResult' = [clsResult EXCEPT ![site] =
           SiteResponseError(site, clsInput.http, clsInput.body)]
    /\ UNCHANGED <<uiVars, procVars, envVars, draftVars, clsInput, fnVars, chatVars>>

NextClassify == \E site \in Sites : Classify(site)

SpecClassify == InitClassify /\ [][NextClassify]_vars

\* ------------------------------------------------------------ SpecSuggest
\* One report session, from the form to the export, with every outcome and
\* every order of the two suggestion calls.

NextSuggest ==
    \/ ExportSetup
    \/ EditSteps
    \/ \E r \in 1..MaxRuns, reply \in SuggestionReplies : PromptSuggestionReturns(r, reply)
    \/ \E r \in 1..MaxRuns, reply \in SuggestionReplies : StyleSuggestionReturns(r, reply)

SpecSuggest == Init /\ [][NextSuggest]_vars

\* ------------------------------------------------------------ SpecSession
\* Report sessions one after another: drafts that succeed or fail, edits,
\* resets, and the catalog fetches they start.  No export is started.

NextSession ==
    \/ DraftSteps
    \/ ResetGeneratorState
    \/ EditSteps
    \/ \E id \in {"t1", "t2"} : SelectGammaTheme(id)
    \/ \E f \in 1..MaxFetches, reply \in UiCatalogReplies : BackendReplies(f, reply)
    \/ \E f \in 1..MaxFetches : CatalogResponse(f)

SpecSession == Init /\ [][NextSession]_vars

\* ------------------------------------------------------------ SpecFiles
\* The form: the user picks and removes files, then submits; the files are
\* read in any order with any outcome, and the generation succeeds or fails;
\* after a failure the user may submit the same files again.

NothingRunning == error = NULL /\ \A r \in 1..MaxRuns : runs[r].phase = "free"

NextFiles ==
    \/ \E selectedFiles \in FileLists :
          /\ NothingRunning
          /\ Len(knowledgeBaseFiles) + Len(selectedFiles) <= MaxFiles
          /\ HandleFileChange(selectedFiles)
    \/ \E index \in 1..MaxFiles : NothingRunning /\ RemoveFile(index)
    \/ HandleSubmitDraft
    \/ \E r \in 1..MaxRuns, i \in 1..MaxFiles, reply \in ReadReplies :
          FileReadSettles(r, i, reply)
    \/ \E r \in 1..MaxRuns, text \in DraftTexts, chunks \in {NoChunks, Chunks(<<"w1">>)} :
          DraftResolves(r, text, chunks)
    \/ \E r \in 1..MaxRuns, cause \in DraftFailures : DraftRejects(r, cause)
    \/ \E r \in 1..MaxRuns : PromptSuggestionReturns(r, UiSuggestionReply)
    \/ \E r \in 1..MaxRuns : StyleSuggestionReturns(r, UiSuggestionReply)

SpecFiles == Init /\ [][NextFiles]_vars

\* ------------------------------------------------------------ SpecTheme
\* generateReportDraft up to its request, as a function of its arguments.

\* the keys of the THEME_PROMPTS literal (accents left out)
KnownThemes ==
    { "Estrategia de Crescimento", "Reconhecimento de Marca", "Analise de Mercado",
      "Planejamento de Midia", "Analise de Social Media",
      "Relatorio de Performance (Pos-Campanha)", "Branding & Posicionamento",
      "Analise de Concorrencia" }

\* THEME_PROMPTS is an object literal: besides its own keys it answers for
\* the members it inherits from Object.prototype
ObjectPrototypeKeys ==
    { "constructor", "toString", "valueOf", "hasOwnProperty", "__proto__" }

\* the brief stored under a key: "**Foco do Relatorio: <theme>** ..."
OwnBrief(theme) == <<"Foco do Relatorio", theme>>

\* an inherited member as the template literal prints it
InheritedMember(key) ==
    IF key = "__proto__" THEN <<"[object Object]">>
    ELSE <<"function", IF key = "constructor" THEN "Object" ELSE key, "() { [native code] }">>

\* 'Analise os dados fornecidos e gere um relatorio conciso e estrategico.'
FallbackBrief == <<"Analise os dados fornecidos e gere um relatorio conciso e estrategico.">>

\* THEME_PROMPTS[theme] || fallback: every value found is truthy
themePrompt(theme) ==
    IF theme \in KnownThemes THEN OwnBrief(theme)
    ELSE IF theme \in ObjectPrototypeKeys THEN InheritedMember(theme)
    ELSE FallbackBrief

\* the request generateReportDraft builds before it calls the model
generateReportDraftRequest(theme, prompt, useGoogleSearch, tone) ==
    [kind |-> "request",
     systemInstruction |-> <<"MARY_PERSONA_PROMPT", "Tom Especifico", tone>>,
     fullUserPrompt |-> <<themePrompt(theme), "Briefing do Usuario", prompt>>,
     tools |-> IF useGoogleSearch THEN <<"googleSearch">> ELSE <<>>]

Tones == {"Analitico", "Estrategico", "Executivo", "Tecnico", "Persuasivo", "Criativo"}

\* theme identifiers: the known ones, the empty string, unknown names, and
\* names of members of Object.prototype
ThemeIds ==
    KnownThemes \cup ObjectPrototypeKeys
        \cup {"", "Outro Tema", "estrategia de crescimento"}

InitTheme ==
    /\ InitGenerator /\ InitIdleEnv /\ InitIdleCls
    /\ fnInput \in [kind : {"generateReportDraft"}, theme : ThemeIds, prompt : {"brief"},
                    useGoogleSearch : BOOLEAN, tone : Tones]
    /\ fnOutput = NoValue

ComposePrompt ==
    /\ fnInput.kind = "generateReportDraft"
    /\ fnOutput = NoValue
    /\ fnOutput' = generateReportDraftRequest(fnInput.theme, fnInput.prompt,
                                              fnInput.useGoogleSearch, fnInput.tone)
    /\ UNCHANGED <<uiVars, procVars, envVars, clsVars, draftVars, fnInput, chatVars>>

NextTheme == ComposePrompt

SpecTheme == InitTheme /\ [][NextTheme]_vars

\* ------------------------------------------------------------ SpecSheets
\* convertExcelToText as a function of the workbook XLSX.read returns.  A
\* text is the sequence of its lines, a line the sequence of its pieces.

Blank == <<>>

\* `--- START OF SHEET: ${sheetName} ---` and `--- END OF SHEET: ${sheetName} ---`
StartMarker(sheetName) == <<"--- START OF SHEET: ", sheetName, " ---">>
EndMarker(sheetName) == <<"--- END OF SHEET: ", sheetName, " ---">>

\* String.prototype.trim on a text that begins with a marker: the blank
\* lines at its end go
RECURSIVE trimLines(_)
trimLines(lines) ==
    IF lines # <<>> /\ lines[Len(lines)] = Blank
    THEN trimLines(SubSeq(lines, 1, Len(lines) - 1))
    ELSE lines

\* what one sheet adds to fullText: marker, csv, marker, and an empty line
SheetBlock(sheet) ==
    <<StartMarker(sheet.name)>> \o sheet.csv \o <<EndMarker(sheet.name), Blank>>

RECURSIVE fullText(_)
fullText(sheets) ==
    IF sheets = <<>> THEN <<>>
    ELSE SheetBlock(Head(sheets)) \o fullText(Tail(sheets))

\* convertExcelToText once the file is read: XLSX.read throws on what it
\* cannot parse, else each sheet is appended in SheetNames order
convertExcelToText(workbook) ==
    IF ~workbook.parses
    THEN [kind |-> "rejected", lines |-> <<>>]
    ELSE [kind |-> "text", lines |-> trimLines(fullText(workbook.sheets))]

SheetNames == {"S1", "S2", "S3"}

\* what XLSX.utils.sheet_to_csv gives for a sheet, one line per row: two
\* rows, an empty sheet, and one-column sheets that have a cell whose text
\* reads like a marker
CsvTexts ==
    { << <<"a,b">>, <<"1,2">> >>,
      << Blank >>,
      << <<"total">>, EndMarker("S1") >>,
      << StartMarker("S2"), <<"x">> >>,
      << <<"n">> >> }

Workbooks ==
    { [parses |-> p, sheets |-> s] :
        p \in BOOLEAN,
        s \in { q \in UNION { [1..n -> [name : SheetNames, csv : CsvTexts]] : n \in 0..MaxSheets } :
                  \A i, j \in DOMAIN q : i # j => q[i].name # q[j].name } }

InitSheets ==
    /\ InitGenerator /\ InitIdleEnv /\ InitIdleCls
    /\ fnInput \in { [kind |-> "convertExcelToText", workbook |-> w] : w \in Workbooks }
    /\ fnOutput = NoValue

ConvertExcelToText ==
    /\ fnInput.kind = "convertExcelToText"
    /\ fnOutput = NoValue
    /\ fnOutput' = convertExcelToText(fnInput.workbook)
    /\ UNCHANGED <<uiVars, procVars, envVars, clsVars, draftVars, fnInput, chatVars>>

NextSheets == ConvertExcelToText

SpecSheets == InitSheets /\ [][NextSheets]_vars

\* ------------------------------------------------------------ SpecOrder
\* One report session whose two suggestion calls are answered from a script
\* fixed beforehand, in either order of return.

SuggestionScripts == [prompt : SuggestionReplies, style : SuggestionReplies]

InitOrder ==
    /\ InitGenerator
    /\ backend = NoBackend
    /\ pollScript = <<>>
    /\ suggestionScript \in SuggestionScripts
    /\ chatApiKey = TRUE
    /\ InitIdleCls
    /\ InitIdleFn

NextOrder ==
    \/ HandleSubmitDraft
    \/ \E r \in 1..MaxRuns, text \in DraftTexts : DraftResolves(r, text, NoChunks)
    \/ \E r \in 1..MaxRuns : PromptSuggestionReturns(r, suggestionScript.prompt)
    \/ \E r \in 1..MaxRuns : StyleSuggestionReturns(r, suggestionScript.style)
    \/ EditSteps

SpecOrder == InitOrder /\ [][NextOrder]_vars

\* ------------------------------------------------------------ SpecSubmit
\* Exports one after the other and, across a reset, side by side, with every
\* kind of answer to the submission, and the first ticks of their poll
\* loops, each sent once the one before it was answered.

\* answers to POST /generations
SubmitReplies ==
    { SubmitReply(200, <<>>, "g1"), SubmitReply(200, <<>>, "g2"),
      SubmitReply(403, BodyDemo, NULL), SubmitReply(500, BodyBoom, NULL),
      SubmitReply(NoResponse, <<>>, NULL) }

SubmitPollReplies == { PendingReply, CompletedReply("u1") }

\* the draft and the catalog are there, nothing of them is under way
GeneratorIdle ==
    /\ \A f \in 1..MaxFetches : fetches[f].pc = "free"
    /\ \A r \in 1..MaxRuns : runs[r].phase = "free"

\* the reset that leaves a poll loop behind
PollLoopRunning ==
    /\ \E j \in 1..MaxJobs : TimerActive(jobs[j])
    /\ GeneratorIdle

NextSubmit ==
    \/ ThemeSetup
    \/ \E r \in 1..MaxRuns : PromptSuggestionReturns(r, UiSuggestionReply)
    \/ \E r \in 1..MaxRuns : StyleSuggestionReturns(r, UiSuggestionReply)
    \/ PollLoopRunning /\ ResetGeneratorState
    \/ GeneratorIdle /\ HandleGeneratePptx
    \/ \E j \in 1..MaxJobs, reply \in SubmitReplies : SubmitResponse(j, reply)
    \/ \E j \in 1..MaxJobs :
           jobs[j].attempts < MaxPolls /\ jobs[j].inflight = 0 /\ PollTick(j)
    \/ \E j \in 1..MaxJobs, reply \in SubmitPollReplies : PollResponse(j, reply)

SpecSubmit == Init /\ [][NextSubmit]_vars

\* ------------------------------------------------------------ SpecChat
\* The chat widget next to a generator that produces, edits and resets
\* drafts, with and without an API key for the chat.

ChatInputs == { <<"q">> }
ChatChunks == { <<"x">> }

InitChat ==
    /\ InitGenerator
    /\ backend = NoBackend
    /\ pollScript = <<>>
    /\ suggestionScript = NoSuggestionScript
    /\ chatApiKey \in BOOLEAN
    /\ InitIdleCls
    /\ InitIdleFn

ChatSteps ==
    \/ ToggleChat
    \/ \E input \in ChatInputs : HandleSendMessage(input)
    \/ \E chunk \in ChatChunks : StreamChunk(chunk)
    \/ StreamEnds
    \/ StreamFails

NextChat ==
    /\ Mounted
    /\ \/ DraftSteps
       \/ ResetGeneratorState
       \/ EditSteps
       \/ ChatSteps

SpecChat == InitChat /\ [][NextChat]_vars

\* ------------------------------------------------------------ SpecBody
\* generatePresentation's request body, for every kind of image style.

ImageStyles ==
    { NoImageStyle, ImageStyle(<<>>), ImageStyle(<<" ">>), ImageStyle(<<"a">>),
      ImageStyle(<<"b">>), ImageStyle(<<"a", " ", "b">>) }

InitBody ==
    /\ InitGenerator /\ InitIdleEnv /\ InitIdleCls
    /\ fnInput \in [kind : {"generatePresentation"}, markdownContent : {"draft", "edit", ""},
                    themeId : {"t1", "t2", ""}, imageStyle : ImageStyles]
    /\ fnOutput = NoValue

BuildGenerationBody ==
    /\ fnInput.kind = "generatePresentation"
    /\ fnOutput = NoValue
    /\ fnOutput' = [kind |-> "generationBody",
                    body |-> generationBody(fnInput.markdownContent, fnInput.themeId,
                                            fnInput.imageStyle)]
    /\ UNCHANGED <<uiVars, procVars, envVars, clsVars, draftVars, fnInput, chatVars>>

NextBody == BuildGenerationBody

SpecBody == InitBody /\ [][NextBody]_vars

\* ------------------------------------------------------------ SpecTicks
\* SpecPoll with a timer that keeps ticking: setInterval calls the callback
\* every 5 s as long as the interval is set. Nothing is assumed about the
\* backend: a status request may stay unanswered for ever.

SpecTicks ==
    /\ Init
    /\ [][NextPoll]_vars
    /\ \A j \in 1..MaxJobs : WF_vars(PollTick(j))

\* ------------------------------------------------------------ SpecSelect
\* One report session with edits, against a catalog that is not the same
\* at every call, up to the submission of an export.

ChangingCatalogReplies ==
    { CatalogReply(200, <<>>, [data |-> <<T1>>, hasMore |-> FALSE, nextCursor |-> NULL]),
      CatalogReply(200, <<>>, [data |-> <<T2>>, hasMore |-> FALSE, nextCursor |-> NULL]) }

NextSelect ==
    \/ HandleSubmitDraft
    \/ \E r \in 1..MaxRuns, text \in DraftTexts : DraftResolves(r, text, NoChunks)
    \/ EditSteps
    \/ \E f \in 1..MaxFetches, reply \in ChangingCatalogReplies : BackendReplies(f, reply)
    \/ \E f \in 1..MaxFetches : CatalogResponse(f)
    \/ \E id \in {"t1", "t2"} : SelectGammaTheme(id)
    \/ HandleGeneratePptx

SpecSelect == Init /\ [][NextSelect]_vars

\* ------------------------------------------------------------ SpecLink
\* One report session, no reset: the draft is edited before, during and
\* after its export.

NextLink ==
    \/ ExportSetup
    \/ EditSteps
    \/ \E j \in 1..MaxJobs : jobs[j].attempts < MaxUiTicks /\ PollTick(j)
    \/ \E j \in 1..MaxJobs, reply \in UiPollReplies : PollResponse(j, reply)

SpecLink == Init /\ [][NextLink]_vars

\* ------------------------------------------------------------ SpecEdit
\* One report session in which the draft is edited, the edit saved or
\* cancelled, with the empty text among the texts typed.

TypedTexts == {"edit", "draft", ""}

NextEdit ==
    \/ HandleSubmitDraft
    \/ \E r \in 1..MaxRuns, text \in DraftTexts : DraftResolves(r, text, NoChunks)
    \/ \E r \in 1..MaxRuns : PromptSuggestionReturns(r, UiSuggestionReply)
    \/ \E r \in 1..MaxRuns : StyleSuggestionReturns(r, UiSuggestionReply)
    \/ \E f \in 1..MaxFetches : BackendReplies(f, OnePageReply)
    \/ \E f \in 1..MaxFetches : CatalogResponse(f)
    \/ StartEdit
    \/ \E text \in TypedTexts : TypeEdit(text)
    \/ CancelEdit
    \/ HandleSaveEdit

SpecEdit == Init /\ [][NextEdit]_vars

\* ------------------------------------------------------------ claims

\* C1: against the script [pending, pending, completed with a URL] the export
\* resolves with that URL after exactly 3 status requests, and no status
\* request is issued after that.
C1_ResolvesAfterThreeRequests ==
    \A j \in 1..MaxJobs :
        (pollScript = ScriptCompletes /\ jobs[j].promise.state = "resolved")
            => /\ jobs[j].promise.url = "u1"
               /\ pptxUrl = "u1"
               /\ jobs[j].requests = 3
               /\ ~TimerActive(jobs[j])

\* C2: against a backend that answers every status request with pending the
\* export ends with the timed-out error after the ceiling of 30 polls, and
\* the 32nd tick finds no timer: no status request beyond the ceiling.
C2_AllPendingTimesOut ==
    \A j \in 1..MaxJobs :
        pollScript = ScriptAllPending
            => /\ jobs[j].requests <= maxAttempts
               /\ jobs[j].attempts <= maxAttempts + 1
               /\ jobs[j].attempts > maxAttempts => ~TimerActive(jobs[j])
               /\ jobs[j].phase = "stopped"
                      => /\ jobs[j].attempts = maxAttempts + 1
                         /\ jobs[j].promise = Rejected(ExportTimedOutError)
                         /\ pptxError = ExportTimedOutError
                         /\ pptxUrl = NULL
                         /\ ~isPptLoading

C2_TimedOutAfterThirty ==
    /\ pollScript = ScriptAllPending
    /\ jobs[1].phase = "stopped"
    /\ jobs[1].requests = maxAttempts
    /\ jobs[1].inflight = 0
    /\ pptxError = ExportTimedOutError

\* the answers to a status request that are a transport failure or an HTTP
\* error
PollFailures == { reply \in PollReplies : reply.http = NoResponse \/ ~ResponseOk(reply.http) }

\* C4: a status request that fails in transport or with an HTTP error while
\* the loop is running stops the timer at once, fails the export with that
\* error, and no status request follows it (it is not retried).
C4_PollErrorAborts ==
    [][\A j \in 1..MaxJobs :
          /\ \A reply \in PollFailures :
                (TimerActive(jobs[j]) /\ PollResponse(j, reply))
                    => /\ ~TimerActive(jobs'[j])
                       /\ jobs'[j].promise = PollOutcome(reply)
                       /\ jobs'[j].promise.state = "rejected"
                       /\ pptxError' = jobs'[j].promise.error
                       /\ ~isPptLoading'
          /\ (jobs[j].phase = "stopped" /\ jobs[j].promise.state = "rejected")
                    => jobs'[j].requests = jobs[j].requests]_vars

C4_AbortedOnHttpError ==
    /\ jobs[1].phase = "stopped"
    /\ jobs[1].promise = Rejected(PollResponseError(500, BodyBoom))
    /\ jobs[1].attempts < maxAttempts
    /\ pptxError = PollResponseError(500, BodyBoom)

\* C5: Completed, Failed and TimedOut are terminal: the response or tick
\* that reaches one of them clears the timer, and from then on the timer
\* stays cleared, no status request is issued and the outcome of the export
\* does not change, whatever late response or tick arrives.
C5_TerminalIsFinal ==
    [][\A j \in 1..MaxJobs :
          /\ \A reply \in {CompletedReply("u1"), FailedReply(BodyBoom), FailedReply(<<>>)} :
                (TimerActive(jobs[j]) /\ PollResponse(j, reply))
                    => jobs'[j].phase = "stopped" /\ jobs'[j].promise = PollOutcome(reply)
          /\ (TimerActive(jobs[j]) /\ jobs[j].attempts = maxAttempts /\ PollTick(j))
                    => /\ jobs'[j].phase = "stopped"
                       /\ jobs'[j].promise = Rejected(ExportTimedOutError)
          /\ jobs[j].phase = "stopped"
                    => /\ jobs'[j].phase = "stopped"
                       /\ jobs'[j].promise = jobs[j].promise
                       /\ jobs'[j].promise.state # "pending"
                       /\ jobs'[j].requests = jobs[j].requests
                       /\ jobs'[j].attempts = jobs[j].attempts
                       /\ <<pptxUrl, pptxError, isPptLoading>>' = <<pptxUrl, pptxError, isPptLoading>>
       ]_vars

C5_CompletedWithLateResponses ==
    /\ jobs[1].phase = "stopped"
    /\ jobs[1].promise = Resolved("u1")
    /\ jobs[1].requests > 1
    /\ jobs[1].inflight = 0
    /\ pptxUrl = "u1"

\* C3: at most one export poll loop (interval timer) is active at any time,
\* whatever the user does (generate PPTX, reset, new draft, generate PPTX
\* again).
C3_AtMostOnePollLoop ==
    Cardinality({ j \in 1..MaxJobs : TimerActive(jobs[j]) }) <= 1

\* a step in which listGammaThemes is invoked
ListGammaThemesInvoked ==
    \E f \in 1..MaxFetches :
        /\ fetches[f].pc \in {"free", "failed"}
        /\ fetches'[f].pc = "sent"

\* C9: within one report session (from the creation of a draft until reset
\* or the start of a new draft generation) the catalog is fetched at most
\* once: listGammaThemes is invoked by the step that creates the draft and
\* by no step of the session after it, saving an edit included.
C9_FetchedOncePerSession ==
    [][ListGammaThemesInvoked => (~Truthy(draftResult) /\ Truthy(draftResult'))]_vars

\* a listGammaThemes call is under way
FetchRunning == \E f \in 1..MaxFetches : fetches[f].pc \in {"sent", "replied"}

\* the fetch of the session returned
CatalogLoaded == Truthy(draftResult) /\ ~FetchRunning /\ pptxError = NoError

\* the pages a backend hands out from the first request on, each request
\* carrying the cursor of the page before it, up to n pages
RECURSIVE PagesFrom(_, _, _)
PagesFrom(b, after, n) ==
    IF n = 0 THEN <<>>
    ELSE IF b[after].hasMore
    THEN <<b[after]>> \o PagesFrom(b, b[after].nextCursor, n - 1)
    ELSE <<b[after]>>

FetchedPages(b) == PagesFrom(b, NULL, Cardinality(Cursors))

\* some page of the backend reports hasMore = false
Terminating(b) == ~FetchedPages(b)[Len(FetchedPages(b))].hasMore

\* the entries of a list of pages, in page order and within-page order
RECURSIVE Concatenation(_)
Concatenation(pages) ==
    IF pages = <<>> THEN <<>>
    ELSE [i \in 1..Len(Head(pages).data) |->
             [id |-> Head(pages).data[i].id, name |-> Head(pages).data[i].name]]
         \o Concatenation(Tail(pages))

\* C6: when some page reports hasMore = false, listGammaThemes ends after
\* finitely many page requests, and what it returns is the concatenation of
\* the entries of all fetched pages, in page order and within-page order.
C6_CatalogIsConcatenation ==
    /\ [](CatalogLoaded =>
             /\ Terminating(backend)
             /\ gammaThemes = Concatenation(FetchedPages(backend)))
    /\ (Terminating(backend) /\ FetchRunning) ~> ~FetchRunning

C6_TwoPagesLoaded ==
    /\ CatalogLoaded
    /\ Len(FetchedPages(backend)) = 2
    /\ Len(backend[NULL].data) = 2
    /\ Len(gammaThemes) = 3
    /\ gammaThemes[1] # gammaThemes[2]
    /\ gammaThemes[2] # gammaThemes[3]

\* a backend that always reports hasMore = true with the same cursor
Malformed(b) ==
    \A c \in Cursors : b[c].hasMore /\ b[c].nextCursor = b[NULL].nextCursor

\* C7: against a backend that always reports hasMore = true with an
\* unchanging cursor, the page requests of one fetch are bounded: the fetch
\* comes to an end.
C7_FetchEndsOnMalformedBackend ==
    (Malformed(backend) /\ FetchRunning) ~> ~FetchRunning

\* the answers to a page request that are a transport failure or a
\* non-success response
CatalogReplyFails(reply) == reply.http = NoResponse \/ ~ResponseOk(reply.http)

\* C8: a page request that returns a non-success response fails the whole
\* fetch with an error, no further page is requested, and the entries of
\* the pages already fetched do not reach the caller: gammaThemes is
\* unchanged by the failed fetch.
C8_FailedFetchDiscardsPages ==
    [][\A f \in 1..MaxFetches :
          /\ (fetches[f].pc = "replied" /\ CatalogReplyFails(fetches[f].reply)
                /\ CatalogResponse(f))
                => /\ gammaThemes' = gammaThemes
                   /\ fetches'[f].pc = "failed"
                   /\ pptxError' # NoError
                   /\ fetches[f].reply.http # NoResponse =>
                          pptxError' = CatalogResponseError(fetches[f].reply.http,
                                                            fetches[f].reply.body)
                   /\ ~loadingThemes'
          /\ fetches[f].pc = "failed"
                => fetches'[f] = fetches[f] /\ gammaThemes' = gammaThemes]_vars

C8_FailedAfterPartialPages ==
    /\ fetches[1].pc = "failed"
    /\ Len(fetches[1].allThemes) > 0
    /\ gammaThemes = <<>>
    /\ pptxError = CatalogResponseError(500, BodyBoom)
    /\ ~loadingThemes

\* C10: the three call sites classify a response alike: the
\* proxy-access-required error exactly when the status is 403 and the body
\* contains the proxy-activation marker, the generic API error carrying the
\* status and the body for every other non-success response, and no error
\* for a success response.
C10_SameClassification ==
    \A site \in Sites :
        clsResult[site] # Unclassified =>
            IF ResponseOk(clsInput.http)
            THEN clsResult[site] = NoError
            ELSE IF clsInput.http = 403 /\ includes(toLowerCase(clsInput.body), Marker)
            THEN clsResult[site] = ProxyRequired
            ELSE /\ clsResult[site] \notin {NoError, ProxyRequired}
                 /\ clsResult[site].status = clsInput.http
                 /\ clsResult[site].detail = clsInput.body

\* what a suggestion call hands back for an answer: the empty string when
\* the call failed, its own result when it succeeded
OwnSuggestion(reply) ==
    IF reply.ok THEN removeQuotes(trim(reply.text)) ELSE <<>>

\* a step that issues the two suggestion calls of run r
SuggestionsIssued(r) == runs[r].phase # "suggest" /\ runs'[r].phase = "suggest"

\* C11: for every combination of success and failure of the two suggestion
\* calls, a call that fails yields the empty string for its own field, a
\* call that succeeds has its result assigned to its own field whatever the
\* other call did, and no error reaches the caller: the error state is not
\* set and the draft is kept.
C11_SuggestionsAreIndependent ==
    [][\A r \in 1..MaxRuns, reply \in SuggestionReplies :
          /\ PromptSuggestionReturns(r, reply) =>
                /\ error' = error /\ error' = NULL
                /\ draftResult' = draftResult
                /\ IF runs[r].styleCall.state = "returned"
                   THEN /\ imagePrompt' = OwnSuggestion(reply)
                        /\ imageStylePrompt' = runs[r].styleCall.value
                        /\ ~loadingSuggestions'
                   ELSE runs'[r].promptCall = Returned(OwnSuggestion(reply))
          /\ StyleSuggestionReturns(r, reply) =>
                /\ error' = error /\ error' = NULL
                /\ draftResult' = draftResult
                /\ IF runs[r].promptCall.state = "returned"
                   THEN /\ imageStylePrompt' = OwnSuggestion(reply)
                        /\ imagePrompt' = runs[r].promptCall.value
                        /\ ~loadingSuggestions'
                   ELSE runs'[r].styleCall = Returned(OwnSuggestion(reply))]_vars

C11_OneSucceededOneFailed ==
    /\ imagePrompt = <<"a">>
    /\ imageStylePrompt = <<>>
    /\ runs[1].phase = "free"
    /\ ~loadingSuggestions
    /\ Truthy(draftResult)
    /\ error = NULL

\* C12: the suggestion calls never block or fail the primary flow: the draft
\* is stored by the step that issues them, the catalog fetch is started
\* with them, the export can be started while they are pending, and no
\* outcome of a suggestion call clears the draft, sets the error or touches
\* the catalog fetch or the export.
C12_SuggestionsNeverBlock ==
    /\ [](\A r \in 1..MaxRuns :
             runs[r].phase = "suggest" =>
                /\ Truthy(draftResult)
                /\ error = NULL
                /\ FetchRunning \/ gammaThemes # <<>>
                /\ (~isEditing /\ ~isPptLoading /\ Truthy(selectedGammaTheme))
                       => ~PptxButtonDisabled)
    /\ [][\A r \in 1..MaxRuns :
             /\ SuggestionsIssued(r) => Truthy(draftResult') /\ ListGammaThemesInvoked
             /\ \A reply \in SuggestionReplies :
                   (PromptSuggestionReturns(r, reply) \/ StyleSuggestionReturns(r, reply))
                       => /\ draftResult' = draftResult
                          /\ error' = error
                          /\ fetches' = fetches
                          /\ jobs' = jobs
                          /\ <<gammaThemes, selectedGammaTheme>>' =
                                 <<gammaThemes, selectedGammaTheme>>]_vars

C12_ExportStartedWhileSuggesting ==
    /\ runs[1].phase = "suggest"
    /\ runs[1].promptCall = Called
    /\ jobs[1].phase = "poll"
    /\ isPptLoading

\* a step in which the generation of run r ends in failure
GenerationFails(r) ==
    /\ runs[r].phase \in {"files", "draft"}
    /\ runs'[r].phase \in {"free", "failed"}

\* C13: for every interleaving, a suggestion call is issued only by the step
\* in which the draft generation of the same run completed, a catalog fetch
\* is issued only in a step that leaves a draft stored, and a step in which
\* a generation fails issues neither.
C13_NothingBeforeTheDraft ==
    [][/\ \A r \in 1..MaxRuns :
             /\ SuggestionsIssued(r) =>
                   /\ runs[r].phase = "draft"
                   /\ Truthy(draftResult')
                   /\ loadingSuggestions'
             /\ GenerationFails(r) =>
                   /\ ~ListGammaThemesInvoked
                   /\ \A q \in 1..MaxRuns : ~SuggestionsIssued(q)
                   /\ runs'[r].promptCall = NotCalled
                   /\ runs'[r].styleCall = NotCalled
       /\ ListGammaThemesInvoked => Truthy(draftResult')]_vars

C13_FetchAndSuggestionsAfterDraft ==
    /\ runs[1].phase = "suggest"
    /\ runs[1].promptCall = Called
    /\ runs[1].styleCall = Called
    /\ FetchRunning
    /\ Truthy(draftResult)

\* C20: in every reachable state, resetGeneratorState leaves every state
\* variable of the generator, loadingThemes included, at its initial value.
C20_ResetRestoresInitialState ==
    [][ResetGeneratorState => InitialState']_vars


\* C14: file normalization fails atomically: in the step in which the read
\* of any one file fails the error is shown and loading is cleared, no
\* draft is produced, and the generation call of that submission is never
\* issued, with no subset of the files.
C14_FileFailureIsAtomic ==
    /\ [](\A r \in 1..MaxRuns :
             /\ runs[r].phase = "failed" =>
                   runs[r].contents = <<>> /\ draftResult = NULL
             /\ runs[r].contents # <<>> =>
                   Len(runs[r].contents) = 1 + Len(runs[r].files))
    /\ [][\A r \in 1..MaxRuns :
             /\ \A i \in 1..MaxFiles, reply \in ReadReplies :
                   (~reply.ok /\ FileReadSettles(r, i, reply)) =>
                       /\ runs'[r].phase = "failed"
                       /\ runs'[r].contents = <<>>
                       /\ Truthy(error') /\ error' = ErrorMessage(reply)
                       /\ loading' = NULL
                       /\ draftResult' = NULL
             /\ runs[r].phase = "failed" =>
                   \/ runs'[r] = runs[r]
                   \/ HandleSubmitDraft]_vars

C14_FailedAfterOtherFileRead ==
    /\ runs[1].phase = "failed"
    /\ Len(runs[1].files) = 2
    /\ runs[1].reads[1] # ReadPending
    /\ runs[1].reads[2] = ReadPending
    /\ error = "Ocorreu um erro desconhecido."
    /\ loading = NULL
    /\ draftResult = NULL

\* the part belongs to the file: it carries the file's bytes, and the
\* file's name or declared type
PartOf(part, file) ==
    IF part.inlineData = Absent
    THEN part.text.name = file.name /\ part.text.textContent.of = file.bytes
    ELSE part.inlineData.mimeType = file.type /\ part.inlineData.data.of = file.bytes

\* C15: each file yields exactly one part with exactly one of text and
\* inline binary, and the generation call receives the prompt part followed
\* by the files' parts in the order of the file list, whatever the order in
\* which the reads complete.
C15_PartsInFileOrder ==
    \A r \in 1..MaxRuns :
       /\ \A i \in DOMAIN runs[r].reads :
             runs[r].reads[i] # ReadPending =>
                 /\ (runs[r].reads[i].text = Absent) # (runs[r].reads[i].inlineData = Absent)
                 /\ PartOf(runs[r].reads[i], runs[r].files[i])
       /\ runs[r].contents # <<>> =>
             /\ Len(runs[r].contents) = 1 + Len(runs[r].files)
             /\ runs[r].contents[1] = PromptPart
             /\ \A i \in DOMAIN runs[r].files :
                   /\ PartOf(runs[r].contents[i + 1], runs[r].files[i])
                   /\ (runs[r].contents[i + 1].text = Absent)
                          # (runs[r].contents[i + 1].inlineData = Absent)

C15_TextThenBinarySent ==
    /\ runs[1].phase = "draft"
    /\ Len(runs[1].contents) = 3
    /\ runs[1].contents[2].text # Absent
    /\ runs[1].contents[3].inlineData # Absent
    /\ runs[1].files[1] # runs[1].files[2]

\* the two rules of the classification, on the declared type and on the
\* lower-cased name
IsSpreadsheet(file) ==
    file.type = SheetType \/ endsWith(toLowerCase(file.name), DotXlsx)

IsCsv(file) ==
    file.type = "text/csv" \/ endsWith(toLowerCase(file.name), DotCsv)

\* C16: a file of the spreadsheet type, or whose lower-cased name ends in
\* .xlsx, becomes a text part made by the spreadsheet conversion, also when
\* the CSV rule applies to it; otherwise a file of type text/csv, or whose
\* name ends in .csv, becomes a text part of its text; every other file
\* becomes an inline-binary part with the file's declared MIME type; every
\* text part carries the original file name.
C16_FilesAreClassified ==
    \A r \in 1..MaxRuns : \A i \in DOMAIN runs[r].reads :
       runs[r].reads[i] # ReadPending =>
          LET file == runs[r].files[i]
              part == runs[r].reads[i]
          IN /\ IsSpreadsheet(file) =>
                   /\ part.inlineData = Absent
                   /\ part.text.name = file.name
                   /\ part.text.textContent = ExcelTextOf(file.bytes)
             /\ (~IsSpreadsheet(file) /\ IsCsv(file)) =>
                   /\ part.inlineData = Absent
                   /\ part.text.name = file.name
                   /\ part.text.textContent = TextOf(file.bytes)
             /\ (~IsSpreadsheet(file) /\ ~IsCsv(file)) =>
                   /\ part.text = Absent
                   /\ part.inlineData.mimeType = file.type
                   /\ part.inlineData.data = Base64Of(file.bytes)

C16_SheetTypedCsvNameRead ==
    /\ Len(runs[1].files) = 2
    /\ runs[1].files[1].type = SheetType
    /\ endsWith(runs[1].files[1].name, DotCsv)
    /\ runs[1].reads[1] # ReadPending
    /\ runs[1].reads[1].text # Absent
    /\ runs[1].files[2].type = ""
    /\ runs[1].reads[2] # ReadPending
    /\ runs[1].reads[2].inlineData # Absent

\* C19: when the generation call fails, whatever the cause, the handler
\* ends with the one fixed message as the error, no draft, no citations,
\* loading cleared, and no suggestion call issued.
C19_DraftFailureIsOpaque ==
    [][\A r \in 1..MaxRuns, cause \in DraftFailures :
          DraftRejects(r, cause) =>
             /\ error' = DraftGenerationFailed
             /\ draftResult' = NULL
             /\ sources' = <<>>
             /\ loading' = NULL
             /\ ~loadingSuggestions'
             /\ runs'[r].phase = "free"
             /\ runs'[r].promptCall = NotCalled /\ runs'[r].styleCall = NotCalled
             /\ \A q \in 1..MaxRuns : ~SuggestionsIssued(q)
             /\ <<imagePrompt, imageStylePrompt>>' = <<imagePrompt, imageStylePrompt>>]_vars

C19_FailedWithFilesRead ==
    /\ error = DraftGenerationFailed
    /\ loading = NULL
    /\ draftResult = NULL
    /\ sources = <<>>
    /\ Len(knowledgeBaseFiles) = 2
    /\ \A r \in 1..MaxRuns : runs[r].phase = "free"

\* C18: for every theme identifier that is not one of the eight known
\* themes the composed prompt carries the generic fallback brief, which is
\* not empty, and for every known theme it carries that theme's own brief.
C18_UnknownThemeGetsFallback ==
    (fnInput.kind = "generateReportDraft" /\ fnOutput # NoValue) =>
        /\ fnOutput.fullUserPrompt[1] # <<>>
        /\ fnOutput.fullUserPrompt[1] =
               IF fnInput.theme \in KnownThemes
               THEN OwnBrief(fnInput.theme)
               ELSE FallbackBrief

\* lines that read as markers
IsStartMarker(line) == Len(line) = 3 /\ line[1] = "--- START OF SHEET: " /\ line[3] = " ---"
IsEndMarker(line) == Len(line) = 3 /\ line[1] = "--- END OF SHEET: " /\ line[3] = " ---"

\* C17: for every workbook the text contains exactly one START OF SHEET and
\* one END OF SHEET marker per sheet, the k-th of each naming the k-th
\* sheet, in the workbook's sheet order.
C17_OneMarkerPairPerSheet ==
    (fnInput.kind = "convertExcelToText" /\ fnOutput # NoValue /\ fnOutput.kind = "text") =>
        LET sheets == fnInput.workbook.sheets
        IN /\ SelectSeq(fnOutput.lines, IsStartMarker) =
                  [k \in DOMAIN sheets |-> StartMarker(sheets[k].name)]
           /\ SelectSeq(fnOutput.lines, IsEndMarker) =
                  [k \in DOMAIN sheets |-> EndMarker(sheets[k].name)]


\* the report session's two suggestion calls are over
SuggestionsOver ==
    /\ Truthy(draftResult)
    /\ ~loadingSuggestions
    /\ \A r \in 1..MaxRuns : runs[r].phase = "free"

\* C21: the two suggestion calls have no ordering dependence: whatever the
\* order in which they complete or fail, once both are over the image prompt
\* is the prompt call's own result and the image style is the style call's
\* own result.
C21_SuggestionOrderIsIrrelevant ==
    SuggestionsOver =>
        /\ imagePrompt = OwnSuggestion(suggestionScript.prompt)
        /\ imageStylePrompt = OwnSuggestion(suggestionScript.style)

\* both calls are over and returned different results
C21_Witness ==
    /\ SuggestionsOver
    /\ suggestionScript.prompt.ok /\ suggestionScript.style.ok
    /\ imagePrompt = <<"a">>
    /\ imageStylePrompt = <<"b">>


\* the submission of job j failed: the request threw or the response was
\* not ok
SubmissionFailed(j) == jobs[j].phase = "aborted"

\* C22: every status request of an export carries the generationId that the
\* export's own successful submission returned; no status request is sent
\* before the submission has returned, and when the submission fails (the
\* request throws or the response is not ok) no poll loop is started and no
\* status request is ever sent.
C22_PollsItsOwnGeneration ==
    \A j \in 1..MaxJobs :
        /\ jobs[j].requests > 0 =>
               /\ jobs[j].phase \in {"poll", "stopped"}
               /\ jobs[j].request.method = "GET"
               /\ jobs[j].request.generation = jobs[j].generationId
        /\ jobs[j].phase \in {"submit", "aborted"} =>
               /\ jobs[j].requests = 0
               /\ jobs[j].attempts = 0
               /\ jobs[j].generationId = NULL
               /\ ~TimerActive(jobs[j])

\* an export polls the generation its submission returned while the
\* submission of a later export has failed
C22_Witness ==
    \E j, k \in 1..MaxJobs :
        /\ TimerActive(jobs[j])
        /\ jobs[j].requests > 0 /\ jobs[j].generationId = "g2"
        /\ jobs[j].request.generation = "g2"
        /\ SubmissionFailed(k)
        /\ jobs[k].promise.state = "rejected"
        /\ pptxError = jobs[k].promise.error


\* the session an open widget holds was created for the draft as it is now
SessionIsForCurrentDraft ==
    /\ reportContext = draftResult
    /\ isOpen /\ chatApiKey => chatRef # NoChat
    /\ chatRef # NoChat =>
           /\ isOpen
           /\ chatRef.systemInstruction.report =
                  (IF Truthy(draftResult) THEN draftResult ELSE NULL)

\* a step that changes the draft while the widget is open and can create
\* sessions
DraftChangesWhileOpen ==
    isOpen /\ isOpen' /\ chatApiKey /\ draftResult' # draftResult

\* C23: the report context of the page is at all times the draft of the
\* generator (after a generation, a saved edit and a reset alike); whenever
\* the chat widget is open and holds a session, that session was created
\* with the current draft as its context; and a change of the draft while
\* the widget is open replaces the session by one for the new draft and the
\* message list by that session's greeting alone.
C23_ChatFollowsTheDraft ==
    /\ []SessionIsForCurrentDraft
    /\ [][DraftChangesWhileOpen =>
             /\ reportContext' = draftResult'
             /\ chatRef'.created
             /\ chatRef'.systemInstruction.report =
                    (IF Truthy(draftResult') THEN draftResult' ELSE NULL)
             /\ Len(messages') = 1
             /\ messages'[1].role = "model"
             /\ messages'[1] # ChatUnavailable
             /\ Truthy(draftResult') =>
                    messages'[1].text = <<"Ola! O rascunho do seu relatorio foi gerado.">>
             /\ ~Truthy(draftResult') => messages'[1].text = <<"Ola! Sou a MARI.">>]_vars

\* an open widget that had a conversation about one draft holds, after a
\* saved edit, a session for the edited draft and only its greeting
C23_Witness ==
    /\ isOpen
    /\ draftResult = "edit"
    /\ chatRef # NoChat
    /\ chatRef.systemInstruction.report = "edit"
    /\ Len(messages) = 1
    /\ chatLoading


\* a step in which the loop of job j processes the response of a status
\* request
StatusResponseProcessed(j) == jobs'[j].inflight < jobs[j].inflight

\* C24: a status response that says completed and carries no download URL
\* is not terminal: the callback leaves the promise and the timer as they
\* are, as for a pending response; and an export whose generation stays
\* completed without URL is never resolved and, once its loop has stopped,
\* has ended with the timed-out error after the ceiling of 30 polls.
C24_CompletedWithoutUrlKeepsPolling ==
    /\ [][\A j \in 1..MaxJobs :
             pollScript = ScriptNeverExports /\ StatusResponseProcessed(j)
                 => /\ jobs'[j].promise = jobs[j].promise
                    /\ jobs'[j].phase = jobs[j].phase
                    /\ pptxUrl' = pptxUrl
                    /\ pptxError' = pptxError
                    /\ isPptLoading' = isPptLoading]_vars
    /\ [](\A j \in 1..MaxJobs :
             pollScript = ScriptNeverExports
                 => /\ jobs[j].promise.state # "resolved"
                    /\ pptxUrl = NULL
                    /\ jobs[j].phase = "stopped"
                           => /\ jobs[j].attempts = maxAttempts + 1
                              /\ jobs[j].promise = Rejected(ExportTimedOutError)
                              /\ pptxError = ExportTimedOutError)

\* every one of the 30 status requests was answered completed without URL,
\* and the export has timed out
C24_Witness ==
    /\ pollScript = ScriptNeverExports
    /\ \E j \in 1..MaxJobs :
           /\ jobs[j].phase = "stopped"
           /\ jobs[j].requests = maxAttempts
           /\ jobs[j].inflight = 0
           /\ jobs[j].promise = Rejected(ExportTimedOutError)
    /\ pptxError = ExportTimedOutError
    /\ ~isPptLoading


\* C25: every tick of a poll loop counts itself first (attempts goes up by
\* one); each of the ticks 1 to 30 sends one status request and leaves the
\* loop running; the 31st tick sends none, stops the timer and rejects the
\* export with the timed-out error; so a loop sends at most 30 status
\* requests.
C25_ThirtyRequestsThenTimeout ==
    /\ [][\A j \in 1..MaxJobs :
             PollTick(j)
                 => /\ jobs'[j].attempts = jobs[j].attempts + 1
                    /\ jobs[j].attempts < maxAttempts
                           => /\ jobs'[j].requests = jobs[j].requests + 1
                              /\ jobs'[j].inflight = jobs[j].inflight + 1
                              /\ TimerActive(jobs'[j])
                              /\ jobs'[j].promise = jobs[j].promise
                    /\ jobs[j].attempts >= maxAttempts
                           => /\ jobs[j].attempts = maxAttempts
                              /\ jobs'[j].requests = jobs[j].requests
                              /\ jobs'[j].inflight = jobs[j].inflight
                              /\ ~TimerActive(jobs'[j])
                              /\ jobs'[j].promise = Rejected(ExportTimedOutError)
                              /\ pptxError' = ExportTimedOutError]_vars
    /\ [](\A j \in 1..MaxJobs :
             /\ jobs[j].requests <= maxAttempts
             /\ jobs[j].attempts <= maxAttempts + 1
             /\ jobs[j].requests <= jobs[j].attempts)

\* the 31st tick has come while answers were still outstanding: 30 requests
\* sent, the export timed out
C25_Witness ==
    \E j \in 1..MaxJobs :
        /\ jobs[j].attempts = maxAttempts + 1
        /\ jobs[j].requests = maxAttempts
        /\ jobs[j].inflight > 0
        /\ jobs[j].phase = "stopped"
        /\ jobs[j].promise = Rejected(ExportTimedOutError)


\* a step in which fetch f, having read a page, sends its next page request
NextPageRequested(f) == fetches[f].pc = "replied" /\ fetches'[f].pc = "sent"

\* C26: the first page request of a fetch carries no cursor; each later
\* request carries as `after` the nextCursor of the page just read; and
\* after a page that reports hasMore = true the request that follows is for
\* the next page, never again for the first page (a request without
\* cursor).
C26_NextRequestIsNextPage ==
    [][\A f \in 1..MaxFetches :
          /\ fetches[f].pc \in {"free", "failed"} /\ fetches'[f].pc = "sent"
                 => fetches'[f].after = NULL
          /\ NextPageRequested(f)
                 => /\ fetches[f].reply.page.hasMore
                    /\ fetches'[f].after = fetches[f].reply.page.nextCursor
                    /\ fetches'[f].after # NULL]_vars


\* C27: the body of an export submission contains image options, with the
\* source aiGenerated and the directive as style, exactly when the image
\* style directive is a non-empty string; with an empty or absent directive
\* it contains none; and the text mode preserve, the format presentation,
\* the export target pptx and the 16x9 cards are in every submission, next
\* to the draft text and the theme id as given.
C27_ImageOptionsIffStyle ==
    fnOutput.kind = "generationBody" =>
        LET body == fnOutput.body
            style == fnInput.imageStyle
        IN /\ "imageOptions" \in DOMAIN body <=> (style.defined /\ Len(style.text) > 0)
           /\ "imageOptions" \in DOMAIN body =>
                  /\ body.imageOptions.source = "aiGenerated"
                  /\ body.imageOptions.style = style.text
           /\ body.textMode = "preserve"
           /\ body.format = "presentation"
           /\ body.exportAs = "pptx"
           /\ body.cardOptions.dimensions = "16x9"
           /\ body.inputText = fnInput.markdownContent
           /\ body.themeId = fnInput.themeId
           /\ DOMAIN body \subseteq {"inputText", "textMode", "format", "themeId",
                                      "exportAs", "cardOptions", "imageOptions"}

\* a body built for the empty directive: no image options
C27_Witness ==
    /\ fnOutput.kind = "generationBody"
    /\ fnInput.imageStyle = ImageStyle(<<>>)
    /\ "imageOptions" \notin DOMAIN fnOutput.body
    /\ fnOutput.body.cardOptions.dimensions = "16x9"


\* the poll loop of job j is over: the timer is cleared and the export has
\* its outcome
LoopOver(j) == jobs[j].phase = "stopped" /\ jobs[j].promise.state # "pending"

C29_OneRequestInFlight ==
    \A j \in 1..MaxJobs : jobs[j].inflight <= 1

\* the handleSubmitDraft runs that have not returned yet, their suggestion
\* phase included
RunsInProgress == { r \in 1..MaxRuns : runs[r].phase \in {"files", "draft", "suggest"} }

\* C30: at most one draft generation (a handleSubmitDraft run, its
\* suggestion phase included) is in progress at any time, and loading is
\* non-null as long as one is in progress, over every sequence of user
\* actions, the reset included.
C30_OneGenerationAndLoading ==
    /\ Cardinality(RunsInProgress) <= 1
    /\ RunsInProgress # {} => loading # NULL


\* the listGammaThemes calls that have not returned or thrown yet
FetchesInFlight == { f \in 1..MaxFetches : fetches[f].pc \in {"sent", "replied"} }

\* C31: at most one catalog fetch is in flight at any time: no event, not
\* even saving an edited draft while the catalog is still loading, starts a
\* second listGammaThemes call before the first has completed.
C31_OneCatalogFetchInFlight ==
    Cardinality(FetchesInFlight) <= 1


\* No draft is shown: the session was reset (or a new one is being
\* submitted), so whatever is still under way was started before.
NoSession == draftResult = NULL

\* the operations that complete in this step
RunCompletes(r) == runs[r].phase = "suggest" /\ runs'[r].phase # "suggest"
FetchCompletes(f) == fetches[f].pc = "replied" /\ fetches'[f].pc \in {"free", "failed"}
ExportCompletes(j) == jobs[j].promise.state = "pending" /\ jobs'[j].promise.state # "pending"

\* C32: no stale write after reset: the completion of an operation that was
\* started before resetGeneratorState ran (the suggestion calls, a catalog
\* fetch, an export job) writes none of imagePrompt, imageStylePrompt,
\* gammaThemes, pptxUrl, pptxError and the loading flags.
C32_NoStaleWriteAfterReset ==
    [][NoSession /\ (\/ \E r \in 1..MaxRuns : RunCompletes(r)
                     \/ \E f \in 1..MaxFetches : FetchCompletes(f)
                     \/ \E j \in 1..MaxJobs : ExportCompletes(j))
          => UNCHANGED <<imagePrompt, imageStylePrompt, gammaThemes, pptxUrl, pptxError,
                         loading, loadingSuggestions, loadingThemes, isPptLoading>>]_vars


\* C33: in every reachable state pptxUrl and pptxError are not both set: the
\* generator never shows the download link of an export and a catalog or
\* export error at the same time.
C33_LinkAndErrorExclusive ==
    ~(Truthy(pptxUrl) /\ pptxError # NoError)


\* the ids of the catalog as held
CatalogIds == { gammaThemes[i].id : i \in DOMAIN gammaThemes }

\* a step that submits an export
ExportSubmitted ==
    \E j \in 1..MaxJobs : jobs[j].phase # "submit" /\ jobs'[j].phase = "submit"

\* C34: in every reachable state the selected theme is empty or the id of an
\* entry of the catalog as held, so that every export submission carries a
\* theme id of the catalog held at that time; and an export is submitted
\* only when a draft exists and a theme is selected.
C34_SelectedThemeInCatalog ==
    /\ [](selectedGammaTheme = "" \/ selectedGammaTheme \in CatalogIds)
    /\ [][ExportSubmitted =>
             /\ Truthy(draftResult)
             /\ Truthy(selectedGammaTheme)
             /\ selectedGammaTheme \in CatalogIds]_vars


\* a step in which the export of job j hands its download URL to the
\* generator
LinkArrives(j) == jobs[j].promise.state = "pending" /\ jobs'[j].promise.state = "resolved"

\* C35: whenever pptxUrl is set, it is the result of an export submitted
\* with the text of the current draft: a download URL that arrives belongs
\* to an export of the draft text as it is then, and no change of the draft
\* text (a saved edit during or after an export) leaves a link on display.
C35_LinkIsForCurrentDraft ==
    /\ [][\A j \in 1..MaxJobs :
             LinkArrives(j) /\ Truthy(pptxUrl') => jobs[j].markdownContent = draftResult']_vars
    /\ [][draftResult' # draftResult => ~Truthy(pptxUrl')]_vars


\* C36: saving an edit replaces the draft by the edited text and keeps the
\* generator in the draft-exists state: after handleSaveEdit, for every
\* edited text, the empty one included, draftResult is the edited text, the
\* editor is closed, the result view with the reset and export controls is
\* shown and the wizard form is not.
C36_SaveKeepsTheDraftView ==
    [][HandleSaveEdit =>
          /\ draftResult' = editedDraft
          /\ ~isEditing'
          /\ ResultViewShown'
          /\ ~WizardFormShown']_vars


\* C37: cancelling an edit discards it: cancel leaves draftResult as it is,
\* and whenever a draft is shown and the generator is not in editing mode
\* the edit buffer equals the draft, so that the editor, when opened again,
\* starts from the saved draft text.
C37_CancelDiscardsTheEdit ==
    /\ [][CancelEdit => draftResult' = draftResult /\ ~isEditing']_vars
    /\ [](Truthy(draftResult) /\ ~isEditing => editedDraft = draftResult)


\* a step that processes a chunk of the streamed reply
ChunkArrives == stream'.text # stream.text

\* C38: the chunks of a streamed reply only ever modify the model message
\* created for that reply: when the widget was closed or the report context
\* changed while the reply is streaming, a later chunk raises no error on
\* the emptied list, removes nothing, and leaves the greeting at the head of
\* the list as it is.
C38_ChunksTouchOwnMessageOnly ==
    [][ChunkArrives =>
          /\ stream'.phase # "crashed"
          /\ Len(messages') >= Len(messages)
          /\ messages # <<>> => messages'[1] = messages[1]]_vars

=============================================================================
